---- MODULE Spec2Model ----
(***************************************************************************)
(* Git-Lite: a model of the repository service (src/src/repo_service.cpp), *)
(* the storage layout (src/src/storage_manager.cpp) and the terminal       *)
(* command handlers (src/src/gitlite_app.cpp).                             *)
(*                                                                         *)
(* The files of one repository are the fields of a repository record:      *)
(*   HEAD       .glite/HEAD, the text after "ref:"                         *)
(*   heads      .glite/refs/heads/<branch>  -> the id on its first line    *)
(*   tags       .glite/refs/tags/<tag>      -> the id on its first line    *)
(*   index      .glite/index, the lines <path> TAB <blob id>               *)
(*   objects    .glite/objects/<id>         -> the text of the object      *)
(*   log        .glite/log, one line per appendLog                         *)
(*   config     .glite/config (name, owner, visibility)                    *)
(*   workspace  workspace/<path>            -> the bytes of the file       *)
(*   ignore     .gliteignore                                               *)
(* Ids are SHA-256 digests.  sha is the table of the texts digested so     *)
(* far: the digest of a text is its position in the table, so equal texts  *)
(* have equal digests and different texts different ones.  The empty       *)
(* string is Empty, the text "null" is NullTok.                            *)
(* Branch, tag and file names are path tokens without "." and ".."         *)
(* components; a nested token ("a/b") names a file in a directory that     *)
(* does not exist.                                                         *)
(***************************************************************************)
EXTENDS Integers, Sequences, FiniteSets, TLC

VARIABLES users, session, currentDir, perms, store, remotes, clock, sha, out

vars == <<users, session, currentDir, perms, store, remotes, clock, sha, out>>

(***************************************************************************)
(* Bounds                                                                  *)
(***************************************************************************)
\* the lines the log of the repository may get (a line per commit, merge and
\* revert)
MaxLog == 2
\* with a mirror: the digests (blobs, commits) made, and the lines of the log
MaxSyncHashes == 3
MaxSyncLog == 2
\* the seconds the clock may advance
MaxClock == 1
\* the limits history is called with are 0..MaxLimit
MaxLimit == 3

(***************************************************************************)
(* Input alphabets                                                         *)
(***************************************************************************)
Empty == 0
NullTok == -1

\* branch names typed at the terminal; "a/b" is not a valid identifier
BranchNames == {"main", "dev", "a/b"}
TagNames == {"v1"}
Paths == {"f", "g"}
Contents == {"x", "y"}
\* the one file the branch and mirror specifications work with
OnePath == {"f"}
OneContent == {"x"}
Messages == {<<"m">>}
UserNames == {"root", "alice", "bob"}

\* utils.cpp isValidIdentifier: letters, digits, '-', '_', '.' only
isValidIdentifier(value) == value # "a/b"

\* an std::ofstream on dir/<name> opens iff the directory of the file exists:
\* refs/heads and refs/tags have no sub-directories
CanOpen(name) == isValidIdentifier(name)

Min(a, b) == IF a < b THEN a ELSE b

(***************************************************************************)
(* Hashing                                                                 *)
(***************************************************************************)
Known(tab, text) == \E i \in 1..Len(tab) : tab[i] = text

\* hashing::sha256String / sha256File: the digest of a text
sha256(tab, text) ==
    IF Known(tab, text)
    THEN CHOOSE i \in 1..Len(tab) : tab[i] = text
    ELSE Len(tab) + 1

\* the table after digesting a text
Digested(tab, text) == IF Known(tab, text) THEN tab ELSE Append(tab, text)

BlobText(bytes) == <<"blob", bytes>>
\* the body commit() builds: author, timestamp, branch, parent, message, files
BodyText(author, ts, branch, parentField, message, files) ==
    <<"body", author, ts, branch, parentField, message, files>>
\* the concatenation of two ids and a timestamp
CatText(a, b, ts) == <<"cat", a, b, ts>>

(***************************************************************************)
(* Objects                                                                 *)
(***************************************************************************)
\* a blob: a copy of a workspace file
BlobObject(bytes) ==
    [fmt |-> "blob", id |-> Empty, parent |-> Empty, author |-> "",
     timestamp |-> 0, branch |-> "", message |-> <<>>, files |-> <<>>,
     bytes |-> bytes]

\* the file commit() writes: "id=<id>" then the body, "key=value" lines and
\* a "files:" section
EqObject(id, parentField, author, ts, branch, message, files) ==
    [fmt |-> "eq", id |-> id, parent |-> parentField, author |-> author,
     timestamp |-> ts, branch |-> branch, message |-> message,
     files |-> files, bytes |-> ""]

\* the file mergeBranch() and revertCommit() write: "key: value" lines and
\* the file lines without a "files:" line
ColonObject(id, parentField, author, ts, branch, message, files) ==
    [fmt |-> "colon", id |-> id, parent |-> parentField, author |-> author,
     timestamp |-> ts, branch |-> branch, message |-> message,
     files |-> files, bytes |-> ""]

\* struct CommitRecord
CommitRecord(id, parent, author, ts, message, branch, files) ==
    [id |-> id, parent |-> parent, author |-> author, timestamp |-> ts,
     message |-> message, branch |-> branch, files |-> files]

EmptyRecord(id) == CommitRecord(id, Empty, "", 0, <<>>, "", <<>>)

\* a parent line that names the id after the head
ParentFieldAhead(parent) == IF parent = Empty THEN NullTok ELSE parent + 1

\* parent=<p or "null">
ParentField(parent) == IF parent = Empty THEN NullTok ELSE parent

\* the lines mergeBranch() and revertCommit() write after the "id" line
ColonText(parentField, author, ts, branch, message, files) ==
    <<"colon", parentField, author, ts, branch, message, files>>

\* the body of an object file: every line but the "id" line
BodyOf(obj) ==
    IF obj.fmt = "eq"
    THEN BodyText(obj.author, obj.timestamp, obj.branch, obj.parent,
                  obj.message, obj.files)
    ELSE ColonText(obj.parent, obj.author, obj.timestamp, obj.branch,
                   obj.message, obj.files)

(***************************************************************************)
(* Repository service: readers                                             *)
(***************************************************************************)
currentBranch(r) == IF r.HEAD.prefix = "ref:" THEN r.HEAD.name ELSE "main"

\* the file refs/heads/<branch> names: a branch name that climbs out of
\* refs/heads with ".." names a file of refs/tags
TagOf(branch) == IF branch = "../tags/v1" THEN <<"v1">> ELSE <<>>

branchHead(r, branch) ==
    IF TagOf(branch) # <<>>
    THEN IF TagOf(branch)[1] \in DOMAIN r.tags
         THEN r.tags[TagOf(branch)[1]] ELSE Empty
    ELSE IF branch \in DOMAIN r.heads THEN r.heads[branch] ELSE Empty

readIndex(r) == r.index

commitExists(r, commitId) == commitId \in DOMAIN r.objects

\* a reader that takes the text after "parent=" as it is
readCommitKeepingNull(r, commitId) ==
    IF commitId \notin DOMAIN r.objects THEN
        [id |-> commitId, parent |-> Empty, author |-> "", timestamp |-> 0,
         message |-> <<>>, branch |-> "", files |-> <<>>]
    ELSE LET obj == r.objects[commitId] IN
         IF obj.fmt = "eq"
         THEN [id |-> obj.id, parent |-> obj.parent, author |-> obj.author,
               timestamp |-> obj.timestamp, message |-> obj.message,
               branch |-> obj.branch, files |-> obj.files]
         ELSE [id |-> commitId, parent |-> Empty, author |-> "",
               timestamp |-> 0, message |-> <<>>, branch |-> "",
               files |-> <<>>]

\* readCommit: only "id=" and "key=value" lines are understood, and file
\* lines only after a "files:" line
readCommit(r, commitId) ==
    IF ~commitExists(r, commitId) THEN EmptyRecord(commitId)
    ELSE LET obj == r.objects[commitId] IN
         IF obj.fmt = "eq"
         THEN CommitRecord(obj.id,
                           IF obj.parent = NullTok THEN Empty ELSE obj.parent,
                           obj.author, obj.timestamp, obj.message, obj.branch,
                           obj.files)
         ELSE EmptyRecord(commitId)

getCommit(r, commitId) ==
    IF ~commitExists(r, commitId) THEN EmptyRecord(Empty)
    ELSE readCommit(r, commitId)

RECURSIVE Walk(_, _, _)
\* the loop of history: current is the id to read next, room the records
\* still allowed
Walk(r, current, room) ==
    IF current = Empty \/ room = 0 THEN <<>>
    ELSE IF ~commitExists(r, current) THEN <<>>
    ELSE LET record == readCommit(r, current) IN
         IF record.id = Empty THEN <<>>
         ELSE <<record>> \o Walk(r, record.parent, room - 1)

history(r, branch, limit) == Walk(r, branchHead(r, branch), limit)

listBranchesWithHead(r) == {<<b, branchHead(r, b)>> : b \in DOMAIN r.heads}

listTags(r) == DOMAIN r.tags

getDiff(r) == [e \in 1..Len(readIndex(r)) |-> readIndex(r)[e][1]]

(***************************************************************************)
(* Repository service: writers.  Each returns [ok, repo, sha].             *)
(***************************************************************************)
Res(ok, r, tab) == [ok |-> ok, repo |-> r, sha |-> tab]
\* the result of an operation that digests nothing
Out(ok, r) == [ok |-> ok, repo |-> r]

\* a checkout that also empties the staging area
setCurrentBranchUnstaging(r, branch) ==
    [r EXCEPT !.HEAD = [prefix |-> "ref:", name |-> branch], !.index = <<>>]

setCurrentBranch(r, branch) ==
    [r EXCEPT !.HEAD = [prefix |-> "ref:", name |-> branch]]

\* a function with one more (or one replaced) entry
Put(f, k, v) == [x \in DOMAIN f \cup {k} |-> IF x = k THEN v ELSE f[x]]
\* a function with one entry less
Drop(f, k) == [x \in DOMAIN f \ {k} |-> f[x]]

\* updateBranchHead: the new heads map, unchanged when the file cannot be
\* opened
updateBranchHead(r, branch, commitId) ==
    IF TagOf(branch) # <<>>
    THEN IF r.tagsDir
         THEN [r EXCEPT !.tags = Put(r.tags, TagOf(branch)[1], commitId)]
         ELSE r
    ELSE IF ~CanOpen(branch) THEN r
    ELSE [r EXCEPT !.heads = Put(r.heads, branch, commitId)]

writeIndex(r, entries) == [r EXCEPT !.index = entries]

\* an appendLog that opens the log without std::ios::app
appendLogTruncating(r, record) ==
    [r EXCEPT !.log = <<[id |-> record.id,
                         branch |-> record.branch,
                         timestamp |-> record.timestamp,
                         message |-> record.message]>>]

appendLog(r, record) ==
    [r EXCEPT !.log = Append(r.log, [id |-> record.id,
                                     branch |-> record.branch,
                                     timestamp |-> record.timestamp,
                                     message |-> record.message])]

\* a relative path that leaves workspace/ through "..": the one typed here
\* names the HEAD file of the repository
Escapes(relativePath) == relativePath = "../.glite/HEAD"

\* the bytes setCurrentBranch writes to .glite/HEAD
HeadBytes(r) == r.HEAD.prefix \o " " \o r.HEAD.name \o "\n"

\* fs::exists(workspace / relativePath): the path is resolved by the file
\* system, ".." included
SourceExists(r, relativePath) ==
    IF Escapes(relativePath) THEN r.HEAD.prefix # ""
    ELSE relativePath \in DOMAIN r.workspace

\* the bytes of the file at workspace / relativePath
SourceBytes(r, relativePath) ==
    IF Escapes(relativePath) THEN HeadBytes(r) ELSE r.workspace[relativePath]

\* what sha256File reads with the name of the file hashed in
FileTextWithName(r, relativePath) ==
    BlobText(<<relativePath, SourceBytes(r, relativePath)>>)

\* what sha256File reads: the bytes of the file and nothing else
FileText(r, relativePath) == BlobText(SourceBytes(r, relativePath))

\* an addFile that always appends an entry
addFileAppending(r, tab, relativePath) ==
    IF ~SourceExists(r, relativePath) THEN Res(FALSE, r, tab)
    ELSE LET bytes == SourceBytes(r, relativePath)
             blobId == sha256(tab, FileText(r, relativePath))
             stored == IF blobId \in DOMAIN r.objects THEN r.objects
                       ELSE Put(r.objects, blobId, BlobObject(bytes))
             entries == readIndex(r)
             final == Append(entries, <<relativePath, blobId>>)
         IN Res(TRUE, writeIndex([r EXCEPT !.objects = stored], final),
                Digested(tab, FileText(r, relativePath)))

addFile(r, tab, relativePath) ==
    IF ~SourceExists(r, relativePath) THEN Res(FALSE, r, tab)
    ELSE LET bytes == SourceBytes(r, relativePath)
             blobId == sha256(tab, FileText(r, relativePath))
             stored == IF blobId \in DOMAIN r.objects THEN r.objects
                       ELSE Put(r.objects, blobId, BlobObject(bytes))
             entries == readIndex(r)
             replaced == \E i \in 1..Len(entries) : entries[i][1] = relativePath
             updated == [i \in 1..Len(entries) |->
                            IF entries[i][1] = relativePath
                            THEN <<relativePath, blobId>> ELSE entries[i]]
             final == IF replaced THEN updated
                      ELSE Append(entries, <<relativePath, blobId>>)
         IN Res(TRUE, writeIndex([r EXCEPT !.objects = stored], final),
                Digested(tab, FileText(r, relativePath)))

\* a commit that takes an empty index
commitOfNothing(r, tab, author, message, ts) ==
    LET indexEntries == readIndex(r)
        branch == currentBranch(r)
        parent == branchHead(r, branch)
        body == BodyText(author, ts, branch, ParentField(parent), message,
                         indexEntries)
        commitId == sha256(tab, body)
        written == [r EXCEPT !.objects =
                       Put(r.objects, commitId,
                           EqObject(commitId, ParentField(parent), author, ts,
                                    branch, message, indexEntries))]
        moved == writeIndex(updateBranchHead(written, branch, commitId), <<>>)
        record == CommitRecord(commitId, parent, author, ts, message, branch,
                               indexEntries)
    IN Res(TRUE, appendLog(moved, record), Digested(tab, body))

commit(r, tab, author, message, ts) ==
    LET indexEntries == readIndex(r)
        branch == currentBranch(r)
        parent == branchHead(r, branch)
        body == BodyText(author, ts, branch, ParentField(parent), message,
                         indexEntries)
        commitId == sha256(tab, body)
        written == [r EXCEPT !.objects =
                       Put(r.objects, commitId,
                           EqObject(commitId, ParentField(parent), author, ts,
                                    branch, message, indexEntries))]
        moved == writeIndex(updateBranchHead(written, branch, commitId), <<>>)
        record == CommitRecord(commitId, parent, author, ts, message, branch,
                               indexEntries)
    IN IF indexEntries = <<>> THEN Res(FALSE, r, tab)
       ELSE Res(TRUE, appendLog(moved, record), Digested(tab, body))

\* a branch that always starts at nothing
createBranchAtNothing(r, branchName) ==
    IF branchName \in DOMAIN r.heads THEN Out(FALSE, r)
    ELSE Out(TRUE,
             IF CanOpen(branchName)
             THEN [r EXCEPT !.heads = Put(r.heads, branchName, Empty)]
             ELSE r)

createBranch(r, branchName) ==
    IF branchName \in DOMAIN r.heads THEN Out(FALSE, r)
    ELSE LET head == branchHead(r, currentBranch(r)) IN
         Out(TRUE,
             IF CanOpen(branchName)
             THEN [r EXCEPT !.heads = Put(r.heads, branchName, head)]
             ELSE r)

mergeBranch(r, tab, branch, ts) ==
    LET current == currentBranch(r)
        branchHeadId == branchHead(r, branch)
        currentHeadId == branchHead(r, current)
        text == CatText(branchHeadId, currentHeadId, ts)
        id == sha256(tab, text)
        message == <<"Merge branch", branch, "into", current>>
        files == readCommit(r, branchHeadId).files
        mergeRecord == CommitRecord(id, currentHeadId, "merge", ts, message,
                                    current, files)
        written == [r EXCEPT !.objects =
                       Put(r.objects, id,
                           ColonObject(id, ParentField(currentHeadId), "merge",
                                       ts, current, message, files))]
    IN IF current = branch THEN Res(FALSE, r, tab)
       ELSE IF branchHeadId = Empty THEN Res(FALSE, r, tab)
       ELSE Res(TRUE,
                appendLog(updateBranchHead(written, current, id), mergeRecord),
                Digested(tab, text))

\* a rebase that does not look for a head commit on the other branch
rebaseBranchOntoNothing(r, branch) ==
    LET current == currentBranch(r)
        branchHeadId == branchHead(r, branch)
    IN IF current = branch THEN Out(FALSE, r)
       ELSE Out(TRUE, updateBranchHead(r, current, branchHeadId))

rebaseBranch(r, branch) ==
    LET current == currentBranch(r)
        branchHeadId == branchHead(r, branch)
    IN IF current = branch THEN Out(FALSE, r)
       ELSE IF branchHeadId = Empty THEN Out(FALSE, r)
       ELSE Out(TRUE, updateBranchHead(r, current, branchHeadId))

renameBranch(r, oldName, newName) ==
    IF oldName \notin DOMAIN r.heads THEN Out(FALSE, r)
    ELSE IF newName \in DOMAIN r.heads THEN Out(FALSE, r)
    ELSE IF ~CanOpen(newName) THEN Out(FALSE, r)
    ELSE LET renamed == [r EXCEPT !.heads =
                            Put(Drop(r.heads, oldName), newName,
                                r.heads[oldName])]
         IN Out(TRUE,
                IF currentBranch(renamed) = oldName
                THEN setCurrentBranch(renamed, newName) ELSE renamed)

\* a delete that takes the current branch too
deleteBranchEvenCurrent(r, branchName) ==
    IF branchName \notin DOMAIN r.heads THEN Out(FALSE, r)
    ELSE Out(TRUE, [r EXCEPT !.heads = Drop(r.heads, branchName)])

deleteBranch(r, branchName) ==
    IF branchName \notin DOMAIN r.heads THEN Out(FALSE, r)
    ELSE IF currentBranch(r) = branchName THEN Out(FALSE, r)
    ELSE Out(TRUE, [r EXCEPT !.heads = Drop(r.heads, branchName)])

\* the entries without the first one for a path
RECURSIVE EraseFirst(_, _)
EraseFirst(entries, relativePath) ==
    IF entries = <<>> THEN <<>>
    ELSE IF Head(entries)[1] = relativePath THEN Tail(entries)
    ELSE <<Head(entries)>> \o EraseFirst(Tail(entries), relativePath)

Staged(r, relativePath) ==
    \E i \in 1..Len(readIndex(r)) : readIndex(r)[i][1] = relativePath

\* a removeFile that deletes the workspace file of an unstaged path too
removeFileUnstagedToo(r, relativePath) ==
    IF ~Staged(r, relativePath)
    THEN Out(FALSE, [r EXCEPT !.workspace =
                        [x \in DOMAIN r.workspace \ {relativePath} |->
                            r.workspace[x]]])
    ELSE LET unstaged == writeIndex(r, EraseFirst(readIndex(r), relativePath))
         IN Out(TRUE,
                IF relativePath \in DOMAIN r.workspace
                THEN [unstaged EXCEPT !.workspace =
                         Drop(r.workspace, relativePath)]
                ELSE unstaged)

removeFile(r, relativePath) ==
    IF ~Staged(r, relativePath) THEN Out(FALSE, r)
    ELSE LET unstaged == writeIndex(r, EraseFirst(readIndex(r), relativePath))
         IN Out(TRUE,
                IF relativePath \in DOMAIN r.workspace
                THEN [unstaged EXCEPT !.workspace =
                         Drop(r.workspace, relativePath)]
                ELSE unstaged)

resetFile(r, relativePath) ==
    IF ~Staged(r, relativePath) THEN Out(FALSE, r)
    ELSE Out(TRUE, writeIndex(r, EraseFirst(readIndex(r), relativePath)))

addIgnorePattern(r, pattern) ==
    Out(TRUE, [r EXCEPT !.ignore = Append(r.ignore, pattern)])

\* createTag: refs/tags is created before anything is tested
createTag(r, tagName) ==
    LET currentHead == branchHead(r, currentBranch(r))
        made == [r EXCEPT !.tagsDir = TRUE]
    IN IF tagName \in DOMAIN r.tags THEN Out(FALSE, made)
       ELSE IF currentHead = Empty THEN Out(FALSE, made)
       ELSE Out(TRUE,
                IF CanOpen(tagName)
                THEN [made EXCEPT !.tags = Put(r.tags, tagName, currentHead)]
                ELSE made)

revertCommit(r, tab, commitId, author, ts) ==
    LET originalCommit == readCommit(r, commitId)
        current == currentBranch(r)
        currentHead == branchHead(r, current)
        text == CatText(commitId, currentHead, ts)
        id == sha256(tab, text)
        message == <<"Revert:">> \o originalCommit.message
        files == IF originalCommit.parent # Empty
                 THEN readCommit(r, originalCommit.parent).files
                 ELSE <<>>
        revertRecord == CommitRecord(id, currentHead, author, ts, message,
                                     current, files)
        written == [r EXCEPT !.objects =
                       Put(r.objects, id,
                           ColonObject(id, ParentField(currentHead), author,
                                       ts, current, message, files))]
    IN IF ~commitExists(r, commitId) THEN Res(FALSE, r, tab)
       ELSE Res(TRUE,
                appendLog(updateBranchHead(written, current, id), revertRecord),
                Digested(tab, text))

\* a copy that leaves the refs of the target as they are
CopyGliteKeepingRefs(from, to) ==
    [to EXCEPT !.HEAD = from.HEAD, !.index = from.index,
               !.objects = from.objects, !.log = from.log,
               !.config = from.config]

\* copyDirectory(from/.glite, to/.glite): the target directory is removed and
\* every file of the source copied
CopyGlite(from, to) ==
    [to EXCEPT !.HEAD = from.HEAD, !.heads = from.heads, !.tags = from.tags,
               !.tagsDir = from.tagsDir, !.index = from.index, !.objects = from.objects,
               !.log = from.log, !.config = from.config]

\* copyDirectory(from/workspace, to/workspace)
CopyWorkspace(from, to) == [to EXCEPT !.workspace = from.workspace]

\* a directory with nothing in it
EmptyDir ==
    [HEAD |-> [prefix |-> "", name |-> ""],
     heads |-> [b \in {} |-> Empty],
     tags |-> [t \in {} |-> Empty],
     tagsDir |-> FALSE,
     index |-> <<>>,
     objects |-> [i \in {} |-> BlobObject("")],
     log |-> <<>>,
     config |-> [name |-> "", owner |-> "", visibility |-> ""],
     workspace |-> [p \in {} |-> ""],
     ignore |-> <<>>]

\* a push that copies .glite and leaves the workspace out
pushGliteOnly(r) == CopyGlite(r, EmptyDir)

\* push: the remote directory after it was removed and both trees copied
push(r) == CopyWorkspace(r, CopyGlite(r, EmptyDir))

\* a pull that keeps the local objects the remote does not have
pullMerging(r, remote) ==
    LET copied == CopyWorkspace(remote, CopyGlite(remote, r)) IN
    [copied EXCEPT !.objects =
        [id \in DOMAIN r.objects \cup DOMAIN remote.objects |->
            IF id \in DOMAIN remote.objects THEN remote.objects[id]
            ELSE r.objects[id]]]

\* pull: the local repository after both trees were copied from the remote
pull(r, remote) == CopyWorkspace(remote, CopyGlite(remote, r))

(***************************************************************************)
(* Storage layout                                                          *)
(***************************************************************************)
\* StorageManager::createRepo: the skeleton of a new repository
NewRepo(owner, repo) ==
    [HEAD |-> [prefix |-> "ref:", name |-> "main"],
     heads |-> [b \in {"main"} |-> Empty],
     tags |-> [t \in {} |-> Empty],
     tagsDir |-> FALSE,
     index |-> <<>>,
     objects |-> [i \in {} |-> BlobObject("")],
     log |-> <<>>,
     config |-> [name |-> repo, owner |-> owner, visibility |-> "private"],
     workspace |-> [p \in {} |-> ""],
     ignore |-> <<>>]

(***************************************************************************)
(* The repository service called on one repository, ROOT/alice/proj, and   *)
(* its mirror                                                              *)
(***************************************************************************)
K == <<"alice", "proj">>
Authors == {"alice"}
\* ids a caller may name: those digested so far and one that names nothing
Ids == 1..(Len(sha) + 1)

BaseUsers ==
    <<[username |-> "root", role |-> "admin"],
      [username |-> "alice", role |-> "user"],
      [username |-> "bob", role |-> "user"]>>

InitRepo ==
    /\ users = BaseUsers
    /\ session = <<>>
    /\ currentDir = <<>>
    /\ perms = [k \in {} |-> {}]
    /\ store = [k \in {K} |-> NewRepo(K[1], K[2])]
    /\ remotes = [k \in {} |-> EmptyDir]
    /\ clock = 0
    /\ sha = <<>>
    /\ out = <<>>

AppUnchanged == UNCHANGED <<users, session, currentDir, perms, out>>

\* the running second passes
Tick ==
    /\ clock < MaxClock
    /\ clock' = clock + 1
    /\ UNCHANGED <<users, session, currentDir, perms, store, remotes, sha, out>>

\* the user saves a file under workspace/ with an editor
EditFile(path, bytes) ==
    /\ store' = [store EXCEPT ![K].workspace = Put(@, path, bytes)]
    /\ store' # store
    /\ UNCHANGED <<remotes, clock, sha>>
    /\ AppUnchanged

\* a successful call that digests: the repository and the table change
Hashing(res) ==
    /\ res.ok
    /\ Len(res.repo.log) <= MaxLog
    /\ store' = [store EXCEPT ![K] = res.repo]
    /\ sha' = res.sha
    /\ UNCHANGED <<remotes, clock>>
    /\ AppUnchanged

\* a successful call that digests nothing
Plain(res) ==
    /\ res.ok
    /\ store' = [store EXCEPT ![K] = res.repo]
    /\ UNCHANGED <<remotes, clock, sha>>
    /\ AppUnchanged

AddFile(path) == Hashing(addFile(store[K], sha, path))

Commit(author, message) ==
    Hashing(commit(store[K], sha, author, message, clock))

CreateBranch(name) ==
    /\ isValidIdentifier(name)
    /\ Plain(createBranch(store[K], name))

SetCurrentBranch(name) ==
    /\ store' = [store EXCEPT ![K] = setCurrentBranch(@, name)]
    /\ store' # store
    /\ UNCHANGED <<remotes, clock, sha>>
    /\ AppUnchanged

MergeBranch(name) == Hashing(mergeBranch(store[K], sha, name, clock))

RebaseBranch(name) ==
    /\ Plain(rebaseBranch(store[K], name))
    /\ store' # store

RenameBranch(oldName, newName) ==
    /\ isValidIdentifier(newName)
    /\ Plain(renameBranch(store[K], oldName, newName))

DeleteBranch(name) == Plain(deleteBranch(store[K], name))

RemoveFile(path) == Plain(removeFile(store[K], path))

ResetFile(path) == Plain(resetFile(store[K], path))

CreateTag(name) == Plain(createTag(store[K], name))

RevertCommit(id, author) ==
    Hashing(revertCommit(store[K], sha, id, author, clock))

Push ==
    /\ remotes' = Put(remotes, K, push(store[K]))
    /\ remotes' # remotes
    /\ UNCHANGED <<store, clock, sha>>
    /\ AppUnchanged

Pull ==
    /\ K \in DOMAIN remotes
    /\ store' = [store EXCEPT ![K] = pull(@, remotes[K])]
    /\ store' # store
    /\ UNCHANGED <<remotes, clock, sha>>
    /\ AppUnchanged

NextRepo ==
    \/ \E path \in OnePath, bytes \in OneContent : EditFile(path, bytes)
    \/ \E path \in OnePath : AddFile(path)
    \/ \E author \in Authors, message \in Messages : Commit(author, message)
    \/ \E name \in BranchNames : CreateBranch(name)
    \/ \E name \in BranchNames : SetCurrentBranch(name)
    \/ \E name \in BranchNames : MergeBranch(name)
    \/ \E name \in BranchNames : RebaseBranch(name)
    \/ \E oldName \in BranchNames, newName \in BranchNames :
          RenameBranch(oldName, newName)
    \/ \E name \in BranchNames : DeleteBranch(name)
    \/ \E path \in OnePath : RemoveFile(path)
    \/ \E path \in OnePath : ResetFile(path)
    \/ \E name \in TagNames : CreateTag(name)
    \/ \E id \in Ids, author \in Authors : RevertCommit(id, author)

SpecRepo == InitRepo /\ [][NextRepo]_vars

(***************************************************************************)
(* The repository and its mirror: push and pull between the operations of  *)
(* the service.  The repository starts with one commit on main and a       *)
(* branch dev at that commit; HEAD moves only when its branch is renamed.  *)
(***************************************************************************)
SyncNames == {"main", "dev"}

\* save workspace/f, add it, commit it, create the branch dev
Saved == [NewRepo(K[1], K[2]) EXCEPT !.workspace = [p \in OnePath |-> "x"]]
StagedOnce == addFile(Saved, <<>>, "f")
CommittedOnce == commit(StagedOnce.repo, StagedOnce.sha, "alice", <<"m">>, 0)
Seeded == createBranch(CommittedOnce.repo, "dev").repo

InitSync ==
    /\ users = BaseUsers
    /\ session = <<>>
    /\ currentDir = <<>>
    /\ perms = [k \in {} |-> {}]
    /\ store = [k \in {K} |-> Seeded]
    /\ remotes = [k \in {} |-> EmptyDir]
    /\ clock = 0
    /\ sha = CommittedOnce.sha
    /\ out = <<>>

\* the digests made and the lines logged stay within the bounds
SyncCap ==
    /\ Len(sha') <= MaxSyncHashes
    /\ Len(store'[K].log) <= MaxSyncLog

NextSync ==
    \/ \E path \in OnePath : AddFile(path) /\ SyncCap
    \/ \E author \in Authors, message \in Messages :
          Commit(author, message) /\ SyncCap
    \/ \E name \in SyncNames : CreateBranch(name)
    \/ \E name \in SyncNames : MergeBranch(name) /\ SyncCap
    \/ \E name \in SyncNames : RebaseBranch(name)
    \/ \E oldName \in SyncNames, newName \in SyncNames :
          RenameBranch(oldName, newName)
    \/ \E name \in SyncNames : DeleteBranch(name)
    \/ \E name \in TagNames : CreateTag(name)
    \/ \E id \in Ids, author \in Authors : RevertCommit(id, author) /\ SyncCap
    \/ Push
    \/ Pull

SpecSync == InitSync /\ [][NextSync]_vars

(***************************************************************************)
(* A history built by successive commits: files are saved, staged and      *)
(* committed on main while the clock runs; dev may be branched off.        *)
(***************************************************************************)
NextLinear ==
    \/ Tick
    \/ \E path \in Paths, bytes \in OneContent : EditFile(path, bytes)
    \/ \E path \in Paths : AddFile(path)
    \/ \E author \in Authors, message \in Messages : Commit(author, message)
    \/ CreateBranch("dev")

SpecLinear == InitRepo /\ [][NextLinear]_vars

(***************************************************************************)
(* The application: the session, the current directory, the permissions.   *)
(* store maps the directory ROOT/<owner>/<repo> to its files; currentDir   *)
(* is <<>> in the start directory and <<d>> in the root of repository d;   *)
(* out is what the last command showed of a repository, <<>> when it       *)
(* printed a status line only.                                             *)
(***************************************************************************)
RepoNames == {"proj"}
\* the "[repo]" argument of a command: none, or <owner>/<repo>
Overrides == {<<>>, K}
Directories == {<<>>, <<K>>}

userExists(username) == \E i \in 1..Len(users) : users[i].username = username

\* StorageManager::repoPath, repoExists, getVisibility
repoPath(owner, repo) == <<owner, repo>>

repoExists(owner, repo) == repoPath(owner, repo) \in DOMAIN store

getVisibility(owner, repo) ==
    IF ~repoExists(owner, repo) THEN "private"
    ELSE store[repoPath(owner, repo)].config.visibility

isPublic(owner, repo) == getVisibility(owner, repo) = "public"

\* the key of permissions.tsv: owner + "/" + repo
PermKey(owner, repo) == owner \o "/" \o repo

\* hasWriteAccess without the clause for the owner
hasWriteAccessListedOnly(owner, repo) ==
    IF session = <<>> THEN FALSE
    ELSE IF session[1].role = "admin" THEN TRUE
    ELSE IF PermKey(owner, repo) \notin DOMAIN perms THEN FALSE
    ELSE session[1].username \in perms[PermKey(owner, repo)]

hasWriteAccess(owner, repo) ==
    IF session = <<>> THEN FALSE
    ELSE IF session[1].role = "admin" THEN TRUE
    ELSE IF session[1].username = owner THEN TRUE
    ELSE IF PermKey(owner, repo) \notin DOMAIN perms THEN FALSE
    ELSE session[1].username \in perms[PermKey(owner, repo)]

\* getCurrentRepoPath: the current directory when it holds .glite
getCurrentRepoPath ==
    IF currentDir # <<>> /\ currentDir[1] \in DOMAIN store THEN currentDir
    ELSE <<>>

NoContext == [ok |-> FALSE, owner |-> "", name |-> "", root |-> <<>>]

\* resolveRepoContext: the repository a command works on, [ok, owner, name,
\* root]; without an override owner and name are read from .glite/config
resolveRepoContext(repoOverride, requireWriteAccess) ==
    IF session = <<>> THEN NoContext
    ELSE IF repoOverride # <<>> /\ ~repoExists(repoOverride[1], repoOverride[2])
    THEN NoContext
    ELSE IF repoOverride = <<>> /\ getCurrentRepoPath = <<>> THEN NoContext
    ELSE LET root == IF repoOverride # <<>> THEN repoOverride
                     ELSE currentDir[1]
             identity == store[root].config
             owner == IF repoOverride # <<>> THEN repoOverride[1]
                      ELSE IF identity.owner # "" THEN identity.owner
                      ELSE session[1].username
             repoName == IF repoOverride # <<>> THEN repoOverride[2]
                         ELSE IF identity.name # "" THEN identity.name
                         ELSE root[2]
             trackedRepo == repoOverride # <<>> \/ repoExists(owner, repoName)
             canWrite == hasWriteAccess(owner, repoName)
             canRead == canWrite \/ isPublic(owner, repoName)
         IN IF trackedRepo /\ requireWriteAccess /\ ~canWrite THEN NoContext
            ELSE IF trackedRepo /\ ~requireWriteAccess /\ ~canRead
            THEN NoContext
            ELSE [ok |-> TRUE, owner |-> owner, name |-> repoName,
                  root |-> root]

\* terminalMode reads commands while a session exists
Typed == session # <<>>

\* the command printed an error or a status line and changed nothing
Refused ==
    /\ out' = <<>>
    /\ UNCHANGED <<users, session, currentDir, perms, store, remotes, clock,
                   sha>>

\* a command that digests: on success the repository at root and the table
\* of digests change
Digesting(root, res) ==
    IF ~res.ok THEN Refused
    ELSE /\ Len(res.repo.log) <= MaxLog
         /\ store' = [store EXCEPT ![root] = res.repo]
         /\ sha' = res.sha
         /\ out' = <<>>
         /\ UNCHANGED <<users, session, currentDir, perms, remotes, clock>>

\* a command that digests nothing
Writing(root, res) ==
    IF ~res.ok THEN Refused
    ELSE /\ store' = [store EXCEPT ![root] = res.repo]
         /\ out' = <<>>
         /\ UNCHANGED <<users, session, currentDir, perms, remotes, clock,
                        sha>>

\* handleLogin with the right password, then terminalMode
handleLogin(username) ==
    /\ session = <<>>
    /\ \E i \in 1..Len(users) :
          /\ users[i].username = username
          /\ session' = <<users[i]>>
    /\ out' = <<>>
    /\ UNCHANGED <<users, currentDir, perms, store, remotes, clock, sha>>

\* "logout": terminalMode returns and handleLogin resets the session
Logout ==
    /\ Typed
    /\ session' = <<>>
    /\ out' = <<>>
    /\ UNCHANGED <<users, currentDir, perms, store, remotes, clock, sha>>

\* handleCdCommand to the start directory or to the root of a repository
handleCdCommand(target) ==
    /\ Typed
    /\ IF target = <<>> THEN TRUE ELSE target[1] \in DOMAIN store
    /\ currentDir' = target
    /\ out' = <<>>
    /\ UNCHANGED <<users, session, perms, store, remotes, clock, sha>>

(***************************************************************************)
(* Terminal commands that change a repository.  The file of add, rm and    *)
(* reset is a path under workspace/ of the repository.  The repository of  *)
(* alice holds one commit and the branch dev when the terminal opens.      *)
(***************************************************************************)
\* sanitizeRelativePath of the normalised path: the ".." and "." components
\* are dropped
sanitizeRelativePath(file) == IF Escapes(file) THEN ".glite/HEAD" ELSE file

\* a file outside workspace/ is copied to workspace/<sanitised path> and the
\* copy is staged; a file under workspace/ is staged as it is
handleAddCommand(file, repoOverride) ==
    /\ Typed
    /\ LET ctx == resolveRepoContext(repoOverride, TRUE) IN
       IF ~ctx.ok THEN Refused
       ELSE IF ~SourceExists(store[ctx.root], file) THEN Refused
       ELSE LET r == store[ctx.root]
                repoRelativePath == sanitizeRelativePath(file)
                copied == IF Escapes(file)
                          THEN [r EXCEPT !.workspace =
                                   Put(@, repoRelativePath,
                                       SourceBytes(r, file))]
                          ELSE r
            IN Digesting(ctx.root, addFile(copied, sha, repoRelativePath))

handleCommitCommand(message) ==
    /\ Typed
    /\ IF getCurrentRepoPath = <<>> THEN Refused
       ELSE Digesting(currentDir[1],
                      commit(store[currentDir[1]], sha, session[1].username,
                             message, clock))

handleBranchCreateCommand(branchName, repoOverride) ==
    /\ Typed
    /\ LET ctx == resolveRepoContext(repoOverride, TRUE) IN
       IF ~ctx.ok THEN Refused
       ELSE IF ~isValidIdentifier(branchName) THEN Refused
       ELSE Writing(ctx.root, createBranch(store[ctx.root], branchName))

handleCheckoutCommand(branch, repoOverride) ==
    /\ Typed
    /\ LET ctx == resolveRepoContext(repoOverride, TRUE) IN
       IF ~ctx.ok THEN Refused
       ELSE Writing(ctx.root,
                    Out(TRUE, setCurrentBranch(store[ctx.root], branch)))

handleMergeCommand(branch, repoOverride) ==
    /\ Typed
    /\ LET ctx == resolveRepoContext(repoOverride, TRUE) IN
       IF ~ctx.ok THEN Refused
       ELSE Digesting(ctx.root,
                      mergeBranch(store[ctx.root], sha, branch, clock))

handleRebaseCommand(branch, repoOverride) ==
    /\ Typed
    /\ LET ctx == resolveRepoContext(repoOverride, TRUE) IN
       IF ~ctx.ok THEN Refused
       ELSE Writing(ctx.root, rebaseBranch(store[ctx.root], branch))

handleRenameBranchCommand(oldName, newName, repoOverride) ==
    /\ Typed
    /\ LET ctx == resolveRepoContext(repoOverride, TRUE) IN
       IF ~ctx.ok THEN Refused
       ELSE IF ~isValidIdentifier(newName) THEN Refused
       ELSE Writing(ctx.root, renameBranch(store[ctx.root], oldName, newName))

handleDeleteBranchCommand(branchName, repoOverride) ==
    /\ Typed
    /\ LET ctx == resolveRepoContext(repoOverride, TRUE) IN
       IF ~ctx.ok THEN Refused
       ELSE IF branchName = currentBranch(store[ctx.root]) THEN Refused
       ELSE Writing(ctx.root, deleteBranch(store[ctx.root], branchName))

handleRmCommand(file) ==
    /\ Typed
    /\ IF getCurrentRepoPath = <<>> THEN Refused
       ELSE Writing(currentDir[1], removeFile(store[currentDir[1]], file))

handleResetCommand(file) ==
    /\ Typed
    /\ IF getCurrentRepoPath = <<>> THEN Refused
       ELSE Writing(currentDir[1], resetFile(store[currentDir[1]], file))

handleRevertCommand(commitHash) ==
    /\ Typed
    /\ IF getCurrentRepoPath = <<>> THEN Refused
       ELSE Digesting(currentDir[1],
                      revertCommit(store[currentDir[1]], sha, commitHash,
                                   session[1].username, clock))

handleTagCommand(tagName, repoOverride) ==
    /\ Typed
    /\ LET ctx == resolveRepoContext(repoOverride, TRUE) IN
       IF ~ctx.ok THEN Refused
       ELSE Writing(ctx.root, createTag(store[ctx.root], tagName))

\* "perm add <repo> <user>": the key is the session's user name and the repo
handlePermAddCommand(repo, user) ==
    /\ Typed
    /\ IF ~hasWriteAccess(session[1].username, repo) THEN Refused
       ELSE IF ~userExists(user) THEN Refused
       ELSE IF user = session[1].username THEN Refused
       ELSE LET key == PermKey(session[1].username, repo)
                old == IF key \in DOMAIN perms THEN perms[key] ELSE {}
            IN /\ perms' = Put(perms, key, old \cup {user})
               /\ out' = <<>>
               /\ UNCHANGED <<users, session, currentDir, store, remotes,
                              clock, sha>>

handlePermRmCommand(repo, user) ==
    /\ Typed
    /\ IF ~hasWriteAccess(session[1].username, repo) THEN Refused
       ELSE LET key == PermKey(session[1].username, repo)
                old == IF key \in DOMAIN perms THEN perms[key] ELSE {}
            IN /\ perms' = Put(perms, key, old \ {user})
               /\ out' = <<>>
               /\ UNCHANGED <<users, session, currentDir, store, remotes,
                              clock, sha>>

TermNames == {"main", "dev"}
\* the users who log in: the owner and another user
Committers == {"alice", "bob"}

InitTerminal ==
    /\ users = BaseUsers
    /\ session = <<>>
    /\ currentDir = <<>>
    /\ perms = [k \in {} |-> {}]
    /\ store = [k \in {K} |-> Seeded]
    /\ remotes = [k \in {} |-> EmptyDir]
    /\ clock = 0
    /\ sha = CommittedOnce.sha
    /\ out = <<>>

NextTerminal ==
    \/ \E username \in Committers : handleLogin(username)
    \/ Logout
    \/ \E target \in Directories : handleCdCommand(target)
    \/ \E file \in OnePath, repoOverride \in Overrides :
          handleAddCommand(file, repoOverride)
    \/ \E message \in Messages : handleCommitCommand(message)
    \/ \E name \in TermNames, repoOverride \in Overrides :
          handleBranchCreateCommand(name, repoOverride)
    \/ \E name \in TermNames, repoOverride \in Overrides :
          handleCheckoutCommand(name, repoOverride)
    \/ \E name \in TermNames, repoOverride \in Overrides :
          handleMergeCommand(name, repoOverride)
    \/ \E name \in TermNames, repoOverride \in Overrides :
          handleRebaseCommand(name, repoOverride)
    \/ \E oldName \in TermNames, newName \in TermNames,
          repoOverride \in Overrides :
          handleRenameBranchCommand(oldName, newName, repoOverride)
    \/ \E name \in TermNames, repoOverride \in Overrides :
          handleDeleteBranchCommand(name, repoOverride)
    \/ \E file \in OnePath : handleRmCommand(file)
    \/ \E file \in OnePath : handleResetCommand(file)
    \/ \E commitHash \in Ids : handleRevertCommand(commitHash)
    \/ \E name \in TagNames, repoOverride \in Overrides :
          handleTagCommand(name, repoOverride)
    \/ \E repo \in RepoNames, user \in {"bob"} :
          handlePermAddCommand(repo, user)
    \/ \E repo \in RepoNames, user \in {"bob"} :
          handlePermRmCommand(repo, user)

SpecTerminal == InitTerminal /\ [][NextTerminal]_vars

(***************************************************************************)
(* Visibility, collaborators and roles                                     *)
(***************************************************************************)
\* StorageManager::setVisibility: [ok, store]
setVisibility(owner, repo, public) ==
    IF ~repoExists(owner, repo) THEN [ok |-> FALSE, store |-> store]
    ELSE [ok |-> TRUE,
          store |-> [store EXCEPT ![repoPath(owner, repo)].config.visibility =
                        IF public THEN "public" ELSE "private"]]

\* the visibility of a repository was written
Configured(res) ==
    IF ~res.ok THEN Refused
    ELSE /\ store' = res.store
         /\ out' = <<>>
         /\ UNCHANGED <<users, session, currentDir, perms, remotes, clock,
                        sha>>

\* "visibility [repo] [public|private]": newState is <<>> to toggle
handleVisibilityCommand(repoOverride, newState) ==
    /\ Typed
    /\ LET ctx == resolveRepoContext(repoOverride, TRUE) IN
       IF ~ctx.ok THEN Refused
       ELSE LET isCurrentlyPublic ==
                    getVisibility(ctx.owner, ctx.name) = "public"
                desiredState == IF newState # <<>> THEN newState[1]
                                ELSE ~isCurrentlyPublic
            IN IF newState # <<>> /\ desiredState = isCurrentlyPublic
               THEN Refused
               ELSE Configured(setVisibility(ctx.owner, ctx.name,
                                             desiredState))

handleSetPublicCommand(repo) == handleVisibilityCommand(repo, <<TRUE>>)

handleSetPrivateCommand(repo) == handleVisibilityCommand(repo, <<FALSE>>)

\* the dashboard: manageRepository is reached for a repository of the user
\* ("View My Repos") or for a public one ("Browse Public Repos"); then "Set
\* Visibility"
toggleVisibility(owner, repo) ==
    /\ Typed
    /\ repoExists(owner, repo)
    /\ IF owner = session[1].username THEN TRUE ELSE isPublic(owner, repo)
    /\ LET isOwner == owner = session[1].username
           canManage == isOwner \/ session[1].role = "admin"
           canToggle == canManage
           newState == getVisibility(owner, repo) # "public"
       IN IF ~canToggle THEN Refused
          ELSE Configured(setVisibility(owner, repo, newState))

\* users.tsv with the role of one user rewritten
WithRole(username, role) ==
    [i \in 1..Len(users) |->
        IF users[i].username = username
        THEN [users[i] EXCEPT !.role = role] ELSE users[i]]

\* make-admin open to every logged-in user
handleMakeAdminCommandByAnyone(username) ==
    /\ Typed
    /\ IF ~userExists(username) THEN Refused
       ELSE /\ users' = WithRole(username, "admin")
            /\ out' = <<>>
            /\ UNCHANGED <<session, currentDir, perms, store, remotes, clock,
                           sha>>

handleMakeAdminCommand(username) ==
    /\ Typed
    /\ IF session[1].role # "admin" THEN Refused
       ELSE IF ~userExists(username) THEN Refused
       ELSE /\ users' = WithRole(username, "admin")
            /\ out' = <<>>
            /\ UNCHANGED <<session, currentDir, perms, store, remotes, clock,
                           sha>>

\* remove-admin that lets an admin demote itself
handleRemoveAdminCommandOfSelf(username) ==
    /\ Typed
    /\ IF session[1].role # "admin" THEN Refused
       ELSE IF ~userExists(username) THEN Refused
       ELSE /\ users' = WithRole(username, "user")
            /\ out' = <<>>
            /\ UNCHANGED <<session, currentDir, perms, store, remotes, clock,
                           sha>>

handleRemoveAdminCommand(username) ==
    /\ Typed
    /\ IF session[1].role # "admin" THEN Refused
       ELSE IF username = session[1].username THEN Refused
       ELSE IF ~userExists(username) THEN Refused
       ELSE /\ users' = WithRole(username, "user")
            /\ out' = <<>>
            /\ UNCHANGED <<session, currentDir, perms, store, remotes, clock,
                           sha>>

\* the [public|private] argument of "visibility"
States == {<<>>, <<TRUE>>, <<FALSE>>}

NextAccess ==
    \/ \E username \in UserNames : handleLogin(username)
    \/ Logout
    \/ \E target \in Directories : handleCdCommand(target)
    \/ \E repo \in RepoNames, user \in UserNames :
          handlePermAddCommand(repo, user)
    \/ \E repo \in RepoNames, user \in UserNames :
          handlePermRmCommand(repo, user)
    \/ \E repoOverride \in Overrides, newState \in States :
          handleVisibilityCommand(repoOverride, newState)
    \/ handleSetPublicCommand(K)
    \/ handleSetPrivateCommand(K)
    \/ \E owner \in UserNames, repo \in RepoNames :
          toggleVisibility(owner, repo)
    \/ \E username \in UserNames : handleMakeAdminCommand(username)
    \/ \E username \in UserNames : handleRemoveAdminCommand(username)

SpecAccess == InitRepo /\ [][NextAccess]_vars

(***************************************************************************)
(* Terminal commands that read a repository.  What a command returns is    *)
(* kept in out: the command, the directory it read, whether it printed     *)
(* content (ok) or an error, and the content.                              *)
(***************************************************************************)
\* the commits "log" asks history for
LogLimit == 10
\* the last number handleForkCommand appends to "<repo>-fork"
ForkLimit == 100
\* the directories the store may hold
MaxRepos == 3

\* the command returned content of the directory root
Printed(cmd, root, shown) ==
    /\ out' = <<[cmd |-> cmd, root |-> root, ok |-> TRUE, shown |-> shown]>>
    /\ UNCHANGED <<users, session, currentDir, perms, store, remotes, clock,
                   sha>>

\* the command returned an error about the directory root
Denied(cmd, root) ==
    /\ out' = <<[cmd |-> cmd, root |-> root, ok |-> FALSE, shown |-> <<>>]>>
    /\ UNCHANGED <<users, session, currentDir, perms, store, remotes, clock,
                   sha>>

\* the directory a "[repo]" argument or the current directory names, if any
Addressed(repoOverride) ==
    IF repoOverride # <<>>
    THEN IF repoExists(repoOverride[1], repoOverride[2])
         THEN <<repoOverride>> ELSE <<>>
    ELSE getCurrentRepoPath

\* resolveRepoContext(repoOverride, false) returned false
Unresolved(cmd, repoOverride) ==
    IF Addressed(repoOverride) = <<>> THEN Refused
    ELSE Denied(cmd, Addressed(repoOverride)[1])

handleViewCommand(owner, repo) ==
    /\ Typed
    /\ IF ~repoExists(owner, repo) THEN Refused
       ELSE IF ~isPublic(owner, repo) /\ ~hasWriteAccess(owner, repo)
       THEN Denied("view", repoPath(owner, repo))
       ELSE Printed("view", repoPath(owner, repo),
                    [visibility |-> getVisibility(owner, repo),
                     branches |-> listBranchesWithHead(
                                      store[repoPath(owner, repo)])])

handleStatusCommand(repoOverride) ==
    /\ Typed
    /\ LET ctx == resolveRepoContext(repoOverride, FALSE) IN
       IF ~ctx.ok THEN Unresolved("status", repoOverride)
       ELSE Printed("status", ctx.root, getDiff(store[ctx.root]))

handleLogCommand(repoOverride) ==
    /\ Typed
    /\ LET ctx == resolveRepoContext(repoOverride, FALSE) IN
       IF ~ctx.ok THEN Unresolved("log", repoOverride)
       ELSE Printed("log", ctx.root,
                    history(store[ctx.root], currentBranch(store[ctx.root]),
                            LogLimit))

handleBranchListCommand(repoOverride) ==
    /\ Typed
    /\ LET ctx == resolveRepoContext(repoOverride, FALSE) IN
       IF ~ctx.ok THEN Unresolved("branch", repoOverride)
       ELSE Printed("branch", ctx.root,
                    [branches |-> listBranchesWithHead(store[ctx.root]),
                     current |-> currentBranch(store[ctx.root])])

handleTagsCommand(repoOverride) ==
    /\ Typed
    /\ LET ctx == resolveRepoContext(repoOverride, FALSE) IN
       IF ~ctx.ok THEN Unresolved("tags", repoOverride)
       ELSE Printed("tags", ctx.root, listTags(store[ctx.root]))

handleDiffCommand ==
    /\ Typed
    /\ IF getCurrentRepoPath = <<>> THEN Refused
       ELSE Printed("diff", currentDir[1], getDiff(store[currentDir[1]]))

handleShowCommand(commitHash) ==
    /\ Typed
    /\ IF getCurrentRepoPath = <<>> THEN Refused
       ELSE LET record == getCommit(store[currentDir[1]], commitHash) IN
            IF record.id = Empty THEN Denied("show", currentDir[1])
            ELSE Printed("show", currentDir[1], record)

\* the copy was made: out names the directory that was read
Copied(cmd, source, dest, r) ==
    /\ Cardinality(DOMAIN store) < MaxRepos
    /\ store' = Put(store, dest, r)
    /\ out' = <<[cmd |-> cmd, root |-> source, ok |-> TRUE, shown |-> dest]>>
    /\ UNCHANGED <<users, session, currentDir, perms, remotes, clock, sha>>

\* a fork that takes "<repo>-fork" whether it is free or not
ForkNameTaken(username, repo) == <<repo \o "-fork">>

\* the name handleForkCommand creates: "<repo>-fork", or with the first free
\* number; <<>> when all are taken
ForkName(username, repo) ==
    LET base == repo \o "-fork"
        free == {c \in 1..ForkLimit :
                    ~repoExists(username, base \o ToString(c))}
    IN IF ~repoExists(username, base) THEN <<base>>
       ELSE IF free = {} THEN <<>>
       ELSE <<base \o ToString(CHOOSE c \in free : \A d \in free : c <= d)>>

handleForkCommand(owner, repo) ==
    /\ Typed
    /\ IF ~repoExists(owner, repo) THEN Refused
       ELSE IF ~isPublic(owner, repo) /\ ~hasWriteAccess(owner, repo)
       THEN Denied("fork", repoPath(owner, repo))
       ELSE LET newRepoName == ForkName(session[1].username, repo) IN
            IF newRepoName = <<>> THEN Denied("fork", repoPath(owner, repo))
            ELSE Copied("fork", repoPath(owner, repo),
                        repoPath(session[1].username, newRepoName[1]),
                        pull(NewRepo(session[1].username, newRepoName[1]),
                             store[repoPath(owner, repo)]))

\* "clone <user>/<repo>": the copy is made under the current directory
handleCloneCommand(owner, repo) ==
    /\ Typed
    /\ IF ~repoExists(owner, repo) THEN Refused
       ELSE IF ~isPublic(owner, repo) /\ ~hasWriteAccess(owner, repo)
       THEN Denied("clone", repoPath(owner, repo))
       ELSE LET destRepo == (IF currentDir = <<>> THEN <<>>
                             ELSE currentDir[1]) \o <<repo>>
            IN IF destRepo \in DOMAIN store
               THEN Denied("clone", repoPath(owner, repo))
               ELSE Copied("clone", repoPath(owner, repo), destRepo,
                           pull(EmptyDir, store[repoPath(owner, repo)]))

\* the repository of alice when the terminal opens: one commit on main, the
\* branch dev, the tag v1 and a changed file staged
Edited == [Seeded EXCEPT !.workspace = [p \in OnePath |-> "y"]]
Restaged == addFile(Edited, CommittedOnce.sha, "f")
Tagged == createTag(Restaged.repo, "v1").repo

InitRead ==
    /\ users = BaseUsers
    /\ session = <<>>
    /\ currentDir = <<>>
    /\ perms = [k \in {} |-> {}]
    /\ store = [k \in {K} |-> Tagged]
    /\ remotes = [k \in {} |-> EmptyDir]
    /\ clock = 0
    /\ sha = Restaged.sha
    /\ out = <<>>

\* the repositories "view" is asked for: one that exists and one that does
\* not exist before bob forks
ViewNames == {K, <<"bob", "proj-fork">>}

NextRead ==
    \/ \E username \in UserNames : handleLogin(username)
    \/ Logout
    \/ \E target \in Directories : handleCdCommand(target)
    \/ \E repo \in RepoNames, user \in {"bob"} :
          handlePermAddCommand(repo, user)
    \/ \E repo \in RepoNames, user \in {"bob"} :
          handlePermRmCommand(repo, user)
    \/ \E repoOverride \in Overrides, newState \in States :
          handleVisibilityCommand(repoOverride, newState)
    \/ \E userRepo \in ViewNames : handleViewCommand(userRepo[1], userRepo[2])
    \/ \E repoOverride \in Overrides : handleStatusCommand(repoOverride)
    \/ \E repoOverride \in Overrides : handleLogCommand(repoOverride)
    \/ \E repoOverride \in Overrides : handleBranchListCommand(repoOverride)
    \/ \E repoOverride \in Overrides : handleTagsCommand(repoOverride)
    \/ handleDiffCommand
    \/ \E commitHash \in Ids : handleShowCommand(commitHash)
    \/ handleForkCommand(K[1], K[2])
    \/ handleCloneCommand(K[1], K[2])

SpecRead == InitRead /\ [][NextRead]_vars

(***************************************************************************)
(* Terminal commands that create, delete, transfer and fork repositories.  *)
(***************************************************************************)
\* a directory at or below path
Under(k, path) == Len(k) >= Len(path) /\ SubSeq(k, 1, Len(path)) = path

\* fs::remove_all(path)
RemoveAll(dirs, path) == [k \in {d \in DOMAIN dirs : ~Under(d, path)} |-> dirs[k]]

\* fs::rename(oldPath, newPath): the tree moves with everything below it
Renamed(dirs, oldPath, newPath) ==
    LET moved(k) == newPath \o SubSeq(k, Len(oldPath) + 1, Len(k))
        kept == {d \in DOMAIN dirs : ~Under(d, oldPath)}
        gone == {d \in DOMAIN dirs : Under(d, oldPath)}
    IN [k \in kept \cup {moved(d) : d \in gone} |->
           IF k \in kept THEN dirs[k]
           ELSE dirs[CHOOSE d \in gone : moved(d) = k]]

handleCreateCommand(repoName) ==
    /\ Typed
    /\ IF ~isValidIdentifier(repoName) THEN Refused
       ELSE IF repoExists(session[1].username, repoName) THEN Refused
       ELSE /\ Cardinality(DOMAIN store) < MaxRepos
            /\ store' = Put(store, repoPath(session[1].username, repoName),
                            NewRepo(session[1].username, repoName))
            /\ currentDir' = <<repoPath(session[1].username, repoName)>>
            /\ out' = <<>>
            /\ UNCHANGED <<users, session, perms, remotes, clock, sha>>

handleDeleteCommand(repo) ==
    /\ Typed
    /\ IF ~repoExists(session[1].username, repo) THEN Refused
       ELSE IF session[1].role # "admin"
               /\ ~hasWriteAccess(session[1].username, repo) THEN Refused
       ELSE /\ store' = RemoveAll(store, repoPath(session[1].username, repo))
            /\ perms' = Drop(perms, PermKey(session[1].username, repo))
            /\ out' = <<>>
            /\ UNCHANGED <<users, session, currentDir, remotes, clock, sha>>

\* the line a command returns: "Error: ..." or its success message
Returned(cmd, ok, args) ==
    out' = <<[cmd |-> cmd, root |-> <<>>, ok |-> ok, shown |-> args]>>

\* the command returned an error and changed nothing
Failed(cmd, args) ==
    /\ Returned(cmd, FALSE, args)
    /\ UNCHANGED <<users, session, currentDir, perms, store, remotes, clock,
                   sha>>

handleTransferCommand(repo, newOwner) ==
    /\ Typed
    /\ LET oldPath == repoPath(session[1].username, repo)
           newPath == repoPath(newOwner, repo)
           oldKey == PermKey(session[1].username, repo)
           newKey == PermKey(newOwner, repo)
           args == <<repo, newOwner>>
       IN IF session[1].role # "admin"
             /\ ~repoExists(session[1].username, repo)
          THEN Failed("transfer", args)
          ELSE IF ~userExists(newOwner) THEN Failed("transfer", args)
          ELSE IF ~repoExists(session[1].username, repo)
          THEN Failed("transfer", args)
          ELSE IF newPath \in DOMAIN store THEN Failed("transfer", args)
          ELSE /\ store' = Renamed(store, oldPath, newPath)
               /\ perms' = IF oldKey \in DOMAIN perms
                           THEN Drop(Put(perms, newKey, perms[oldKey]), oldKey)
                           ELSE perms
               /\ Returned("transfer", TRUE, args)
               /\ UNCHANGED <<users, session, currentDir, remotes, clock, sha>>

NextOwners ==
    \/ \E username \in Committers : handleLogin(username)
    \/ Logout
    \/ \E repoName \in RepoNames : handleCreateCommand(repoName)
    \/ \E repo \in RepoNames : handleDeleteCommand(repo)
    \/ \E repo \in RepoNames, newOwner \in Committers :
          handleTransferCommand(repo, newOwner)
    \/ \E owner \in Committers, repo \in RepoNames :
          handleForkCommand(owner, repo)
    \/ \E repo \in RepoNames, user \in Committers :
          handlePermAddCommand(repo, user)
    \/ \E repo \in RepoNames, user \in Committers :
          handlePermRmCommand(repo, user)

SpecOwners == InitRepo /\ [][NextOwners]_vars

(***************************************************************************)
(* The user registry: signup, login, logout and role changes               *)
(***************************************************************************)
\* the shortest user name and password handleSignup takes
MinUsername == 3
MinPassword == 6

\* what is typed at the prompts of signup
SignupNames == UserNames \cup {" bob", "al", "a/b"}
Passwords == {"secret", "pw"}

\* utils.cpp trim: white space at both ends is cut
trim(text) == IF text = " bob" THEN "bob" ELSE text

\* a signup that never finds the name in the registry
TakenNever(list, username) == FALSE

\* the any_of of handleSignup over the loaded users
Taken(list, username) ==
    \E i \in 1..Len(list) : list[i].username = username

\* a signup that makes everybody a plain user
RoleForNextUser(list) == "user"

\* the role of a new user
RoleForNext(list) == IF list = <<>> THEN "admin" ELSE "user"

\* ui_.message(title, {line}): what signup shows
Message(ok, line) ==
    out' = <<[cmd |-> "signup", root |-> <<>>, ok |-> ok, shown |-> line]>>

SignupFailed(line) ==
    /\ Message(FALSE, line)
    /\ UNCHANGED <<users, session, currentDir, perms, store, remotes, clock,
                   sha>>

handleSignup(typed, password) ==
    /\ session = <<>>
    /\ LET username == trim(typed) IN
       IF Len(username) < MinUsername
       THEN SignupFailed("Username too short.")
       ELSE IF ~isValidIdentifier(username)
       THEN SignupFailed("Use only letters, digits, ., -, _.")
       ELSE IF Len(password) < MinPassword
       THEN SignupFailed("Password too short.")
       ELSE IF Taken(users, username)
       THEN SignupFailed("Username already exists.")
       ELSE /\ users' = Append(users, [username |-> username,
                                       role |-> RoleForNext(users)])
            /\ Message(TRUE, username \o " created.")
            /\ UNCHANGED <<session, currentDir, perms, store, remotes, clock,
                           sha>>

\* a new installation: no users, no repositories
InitRegistry ==
    /\ users = <<>>
    /\ session = <<>>
    /\ currentDir = <<>>
    /\ perms = [k \in {} |-> {}]
    /\ store = [k \in {} |-> EmptyDir]
    /\ remotes = [k \in {} |-> EmptyDir]
    /\ clock = 0
    /\ sha = <<>>
    /\ out = <<>>

NextRegistry ==
    \/ \E typed \in SignupNames, password \in Passwords :
          handleSignup(typed, password)
    \/ \E username \in UserNames : handleLogin(username)
    \/ Logout
    \/ \E username \in UserNames : handleMakeAdminCommand(username)
    \/ \E username \in UserNames : handleRemoveAdminCommand(username)

SpecRegistry == InitRegistry /\ [][NextRegistry]_vars

(***************************************************************************)
(* Calls of the repository service with their results.  Every call, failed *)
(* or not, is a step: out holds the function, whether it returned true,    *)
(* and its arguments; the repository is what the call left on disk.        *)
(***************************************************************************)
\* a call of a function that digests
Called(cmd, args, res) ==
    /\ Len(res.repo.log) <= MaxLog
    /\ store' = [store EXCEPT ![K] = res.repo]
    /\ sha' = res.sha
    /\ out' = <<[cmd |-> cmd, root |-> K, ok |-> res.ok, shown |-> args]>>
    /\ UNCHANGED <<users, session, currentDir, perms, remotes, clock>>

\* a call of a function that digests nothing
CalledPlain(cmd, args, res) ==
    /\ store' = [store EXCEPT ![K] = res.repo]
    /\ out' = <<[cmd |-> cmd, root |-> K, ok |-> res.ok, shown |-> args]>>
    /\ UNCHANGED <<users, session, currentDir, perms, remotes, clock, sha>>

\* the user saves a file under workspace/ with an editor
SaveFile(path, bytes) ==
    /\ store' = [store EXCEPT ![K].workspace = Put(@, path, bytes)]
    /\ out' = <<>>
    /\ UNCHANGED <<users, session, currentDir, perms, remotes, clock, sha>>

CallAddFile(path) ==
    Called("addFile", <<path>>, addFile(store[K], sha, path))

CallCommit(author, message) ==
    Called("commit", <<author, message>>,
           commit(store[K], sha, author, message, clock))

CallCreateBranch(name) ==
    CalledPlain("createBranch", <<name>>, createBranch(store[K], name))

CallSetCurrentBranch(name) ==
    CalledPlain("setCurrentBranch", <<name>>,
                Out(TRUE, setCurrentBranch(store[K], name)))

CallMergeBranch(name) ==
    Called("mergeBranch", <<name>>, mergeBranch(store[K], sha, name, clock))

CallRebaseBranch(name) ==
    CalledPlain("rebaseBranch", <<name>>, rebaseBranch(store[K], name))

CallRenameBranch(oldName, newName) ==
    CalledPlain("renameBranch", <<oldName, newName>>,
                renameBranch(store[K], oldName, newName))

CallRevertCommit(id, author) ==
    Called("revertCommit", <<id, author>>,
           revertCommit(store[K], sha, id, author, clock))

\* the branches created, merged, rebased onto and renamed
CallNames == {"main", "dev"}

NextCalls ==
    \/ \E path \in OnePath, bytes \in OneContent : SaveFile(path, bytes)
    \/ \E path \in OnePath : CallAddFile(path)
    \/ \E author \in Authors, message \in Messages : CallCommit(author, message)
    \/ \E name \in CallNames : CallCreateBranch(name)
    \/ \E name \in BranchNames : CallSetCurrentBranch(name)
    \/ \E name \in CallNames : CallMergeBranch(name)
    \/ \E name \in CallNames : CallRebaseBranch(name)
    \/ \E oldName \in CallNames, newName \in BranchNames :
          CallRenameBranch(oldName, newName)
    \/ \E id \in Ids, author \in Authors : CallRevertCommit(id, author)

SpecCalls == InitRepo /\ [][NextCalls]_vars

(***************************************************************************)
(* Calls that create and delete branches and tags.  Branch names reach     *)
(* createBranch through isValidIdentifier; tag names are passed as typed.  *)
(***************************************************************************)
CallDeleteBranch(name) ==
    CalledPlain("deleteBranch", <<name>>, deleteBranch(store[K], name))

CallCreateTag(name) ==
    CalledPlain("createTag", <<name>>, createTag(store[K], name))

\* the names typed after "tag"
TypedTags == TagNames \cup {"a/b"}

NextRefs ==
    \/ \E path \in OnePath, bytes \in OneContent : SaveFile(path, bytes)
    \/ \E path \in OnePath : CallAddFile(path)
    \/ \E author \in Authors, message \in Messages : CallCommit(author, message)
    \/ \E name \in CallNames : CallCreateBranch(name)
    \/ \E name \in BranchNames : CallSetCurrentBranch(name)
    \/ \E name \in BranchNames : CallDeleteBranch(name)
    \/ \E name \in TypedTags : CallCreateTag(name)

SpecRefs == InitRepo /\ [][NextRefs]_vars

(***************************************************************************)
(* Forks of a repository that holds commits and a tag, by its owner, the   *)
(* administrator, a collaborator and a stranger, while it is private and   *)
(* while it is public.                                                     *)
(***************************************************************************)
ForkSources == {K, <<"bob", "proj-fork">>}

NextFork ==
    \/ \E username \in UserNames : handleLogin(username)
    \/ Logout
    \/ \E repo \in RepoNames, user \in {"bob"} :
          handlePermAddCommand(repo, user)
    \/ \E repo \in RepoNames, user \in {"bob"} :
          handlePermRmCommand(repo, user)
    \/ \E newState \in States : handleVisibilityCommand(K, newState)
    \/ \E userRepo \in ForkSources :
          handleForkCommand(userRepo[1], userRepo[2])

SpecFork == InitRead /\ [][NextFork]_vars

(***************************************************************************)
(* A repository, its mirror and a second directory that pulls from the     *)
(* mirror: alice/proj is pushed between saves, adds, commits and           *)
(* checkouts; bob/copy is created and pulls.                               *)
(***************************************************************************)
Copy == <<"bob", "copy">>

\* push(repoRoot, remoteRoot) of alice/proj to its mirror
CallPush ==
    /\ remotes' = Put(remotes, K, push(store[K]))
    /\ out' = <<[cmd |-> "push", root |-> K, ok |-> TRUE, shown |-> <<>>]>>
    /\ UNCHANGED <<users, session, currentDir, perms, store, clock, sha>>

\* createRepo of the second directory, or again after it was removed
CreateCopy ==
    /\ store' = Put(store, Copy, NewRepo(Copy[1], Copy[2]))
    /\ store' # store
    /\ out' = <<>>
    /\ UNCHANGED <<users, session, currentDir, perms, remotes, clock, sha>>

\* pull(repoRoot, remoteRoot) into the second directory from the mirror of
\* alice/proj: false when the mirror does not exist
CallPull ==
    /\ Copy \in DOMAIN store
    /\ IF K \notin DOMAIN remotes
       THEN /\ out' = <<[cmd |-> "pull", root |-> Copy, ok |-> FALSE,
                         shown |-> <<>>]>>
            /\ UNCHANGED store
       ELSE /\ out' = <<[cmd |-> "pull", root |-> Copy, ok |-> TRUE,
                         shown |-> <<>>]>>
            /\ store' = [store EXCEPT ![Copy] = pull(@, remotes[K])]
    /\ UNCHANGED <<users, session, currentDir, perms, remotes, clock, sha>>

NextMirror ==
    \/ \E path \in OnePath, bytes \in Contents : SaveFile(path, bytes)
    \/ \E path \in OnePath : CallAddFile(path)
    \/ \E author \in Authors, message \in Messages : CallCommit(author, message)
    \/ \E name \in CallNames : CallSetCurrentBranch(name)
    \/ CallPush
    \/ CreateCopy
    \/ CallPull

SpecMirror == InitRead /\ [][NextMirror]_vars

(***************************************************************************)
(* A repository that pulls from its own mirror: alice/proj grows from the  *)
(* skeleton, is pushed now and then, and is pulled back.                   *)
(***************************************************************************)
\* pull(repoRoot, remoteRoot) into alice/proj from its mirror: false when the
\* mirror does not exist
CallPullBack ==
    /\ IF K \notin DOMAIN remotes
       THEN /\ out' = <<[cmd |-> "pull", root |-> K, ok |-> FALSE,
                         shown |-> <<>>]>>
            /\ UNCHANGED store
       ELSE /\ out' = <<[cmd |-> "pull", root |-> K, ok |-> TRUE,
                         shown |-> <<>>]>>
            /\ store' = [store EXCEPT ![K] = pull(@, remotes[K])]
    /\ UNCHANGED <<users, session, currentDir, perms, remotes, clock, sha>>

NextPull ==
    \/ \E path \in OnePath, bytes \in OneContent : SaveFile(path, bytes)
    \/ \E path \in OnePath : CallAddFile(path) /\ SyncCap
    \/ \E author \in Authors, message \in Messages :
          CallCommit(author, message) /\ SyncCap
    \/ \E name \in CallNames : CallCreateBranch(name)
    \/ \E name \in CallNames : CallMergeBranch(name) /\ SyncCap
    \/ \E id \in Ids, author \in Authors :
          CallRevertCommit(id, author) /\ SyncCap
    \/ \E name \in TagNames : CallCreateTag(name)
    \/ CallPush
    \/ CallPullBack

SpecPull == InitRepo /\ [][NextPull]_vars

(***************************************************************************)
(* Commits of two files saved and staged one after the other; no file is   *)
(* ever removed or unstaged.                                               *)
(***************************************************************************)
NextSnapshot ==
    \/ \E path \in Paths, bytes \in OneContent : SaveFile(path, bytes)
    \/ \E path \in Paths : CallAddFile(path)
    \/ \E author \in Authors, message \in Messages : CallCommit(author, message)

SpecSnapshot == InitRepo /\ [][NextSnapshot]_vars

(***************************************************************************)
(* commit, mergeBranch and revertCommit one write at a time.  While a call *)
(* is running, out holds its name, the write it has done last and the      *)
(* repository it will leave; every state in between is what an             *)
(* interruption leaves on disk.  commit flushes the object file before it  *)
(* goes on; mergeBranch and revertCommit keep their std::ofstream open     *)
(* until they return, so the file exists and its bytes are on disk at the  *)
(* latest when the stream is destroyed, earlier if the buffer was written  *)
(* out.                                                                    *)
(***************************************************************************)
Writes == {"object", "ref", "index", "log"}

InFlight == out # <<>> /\ out[1].shown # <<>> /\ out[1].shown[1] \in Writes

\* a file that was opened for writing and holds no bytes yet
EmptyFile == [BlobObject("") EXCEPT !.fmt = "empty"]

\* the object directory after the stream on objects/<id> was opened, with
\* the bytes on disk or still in the buffer
Opened(final, id, flushed) ==
    IF flushed THEN final.objects
    ELSE [x \in DOMAIN final.objects |->
             IF x = id THEN EmptyFile ELSE final.objects[x]]

\* the call starts: it returns false at once, or opens and writes the object
Begin(cmd, res, flushed) ==
    /\ ~InFlight
    /\ Len(res.repo.log) <= MaxLog
    /\ IF ~res.ok
       THEN /\ out' = <<[cmd |-> cmd, root |-> K, ok |-> FALSE,
                         shown |-> <<>>]>>
            /\ UNCHANGED <<store, sha>>
       ELSE /\ store' = [store EXCEPT ![K].objects =
                            Opened(res.repo,
                                   branchHead(res.repo,
                                              currentBranch(store[K])),
                                   flushed)]
            /\ sha' = res.sha
            /\ out' = <<[cmd |-> cmd, root |-> K, ok |-> FALSE,
                         shown |-> <<"object", res.repo>>]>>
    /\ UNCHANGED <<users, session, currentDir, perms, remotes, clock>>

\* the running call has done its next write
Wrote(write) ==
    /\ out' = <<[out[1] EXCEPT !.shown = <<write, out[1].shown[2]>>]>>
    /\ UNCHANGED <<users, session, currentDir, perms, remotes, clock, sha>>

BeginCommit(author, message) ==
    Begin("commit", commit(store[K], sha, author, message, clock), TRUE)

BeginMergeBranch(branch) ==
    \E flushed \in BOOLEAN :
        Begin("mergeBranch", mergeBranch(store[K], sha, branch, clock),
              flushed)

BeginRevertCommit(commitId, author) ==
    \E flushed \in BOOLEAN :
        Begin("revertCommit",
              revertCommit(store[K], sha, commitId, author, clock), flushed)

\* updateBranchHead
WriteRef ==
    /\ InFlight
    /\ out[1].shown[1] = "object"
    /\ store' = [store EXCEPT ![K].heads = out[1].shown[2].heads]
    /\ Wrote("ref")

\* writeIndex(repoRoot, {}), in commit only
WriteIndex ==
    /\ InFlight
    /\ out[1].cmd = "commit"
    /\ out[1].shown[1] = "ref"
    /\ store' = [store EXCEPT ![K].index = out[1].shown[2].index]
    /\ Wrote("index")

\* appendLog
WriteLog ==
    /\ InFlight
    /\ out[1].shown[1] = IF out[1].cmd = "commit" THEN "index" ELSE "ref"
    /\ store' = [store EXCEPT ![K].log = out[1].shown[2].log]
    /\ Wrote("log")

\* the call returns true; the stream of mergeBranch and revertCommit is
\* destroyed and its buffer written
Return ==
    /\ InFlight
    /\ out[1].shown[1] = "log"
    /\ store' = [store EXCEPT ![K] = out[1].shown[2]]
    /\ out' = <<[out[1] EXCEPT !.ok = TRUE, !.shown = <<>>]>>
    /\ UNCHANGED <<users, session, currentDir, perms, remotes, clock, sha>>

NextWrites ==
    \/ \E path \in OnePath, bytes \in Contents :
          ~InFlight /\ SaveFile(path, bytes)
    \/ \E path \in OnePath : ~InFlight /\ CallAddFile(path)
    \/ \E author \in Authors, message \in Messages :
          BeginCommit(author, message)
    \/ \E branch \in CallNames : BeginMergeBranch(branch)
    \/ \E commitId \in Ids, author \in Authors :
          BeginRevertCommit(commitId, author)
    \/ WriteRef
    \/ WriteIndex
    \/ WriteLog
    \/ Return

SpecWrites == InitTerminal /\ [][NextWrites]_vars

(***************************************************************************)
(* Transfers typed by the administrator, by owners and by other users, to  *)
(* registered and to unknown users.                                        *)
(***************************************************************************)
NewOwners == UserNames \cup {"eve"}

NextTransfer ==
    \/ \E username \in UserNames : handleLogin(username)
    \/ Logout
    \/ \E repoName \in RepoNames : handleCreateCommand(repoName)
    \/ \E repo \in RepoNames, newOwner \in NewOwners :
          handleTransferCommand(repo, newOwner)
    \/ \E repo \in RepoNames, user \in Committers :
          handlePermAddCommand(repo, user)

SpecTransfer == InitTerminal /\ [][NextTransfer]_vars

(***************************************************************************)
(* The two ways to addFile: the terminal's "add" and the menu's Add File,  *)
(* with a path under workspace/ and with one that leaves it.               *)
(***************************************************************************)
TypedFiles == {"f", "../.glite/HEAD"}

\* manageRepository, "Add File": the prompted path goes to addFile as typed
addFileToRepo(owner, repo, path) ==
    /\ Typed
    /\ repoExists(owner, repo)
    /\ IF ~hasWriteAccess(owner, repo) THEN Refused
       ELSE Digesting(repoPath(owner, repo),
                      addFile(store[repoPath(owner, repo)], sha, path))

NextPaths ==
    \/ \E username \in Committers : handleLogin(username)
    \/ \E target \in Directories : handleCdCommand(target)
    \/ \E path \in OnePath, bytes \in Contents : SaveFile(path, bytes)
    \/ \E file \in TypedFiles, repoOverride \in Overrides :
          handleAddCommand(file, repoOverride)
    \/ \E path \in TypedFiles : addFileToRepo(K[1], K[2], path)
    \/ \E message \in Messages : handleCommitCommand(message)

SpecPaths == InitTerminal /\ [][NextPaths]_vars

(***************************************************************************)
(* Calls that stage and unstage: two paths, two contents.                  *)
(***************************************************************************)
CallRemoveFile(path) ==
    CalledPlain("removeFile", <<path>>, removeFile(store[K], path))

CallResetFile(path) ==
    CalledPlain("resetFile", <<path>>, resetFile(store[K], path))

NextStage ==
    \/ \E path \in Paths, bytes \in Contents : SaveFile(path, bytes)
    \/ \E path \in Paths : CallAddFile(path)
    \/ \E path \in Paths : CallRemoveFile(path)
    \/ \E path \in Paths : CallResetFile(path)
    \/ \E author \in Authors, message \in Messages : CallCommit(author, message)

SpecStage == InitRepo /\ [][NextStage]_vars

(***************************************************************************)
(* Claims about the repository service                                     *)
(***************************************************************************)
CommitStep ==
    \E author \in Authors, message \in Messages : Commit(author, message)

\* the id on the last line of the log: the commit written last
LastLogged(r) == r.log[Len(r.log)].id

\* C1: after every successful commit the index is empty and the ref file of
\* the current branch holds the id of the commit that was just written.
C1_CommitMovesHead ==
    [][CommitStep =>
         /\ store'[K].index = <<>>
         /\ currentBranch(store'[K]) \in DOMAIN store'[K].heads
         /\ store'[K].heads[currentBranch(store'[K])] = LastLogged(store'[K])
      ]_vars

\* C3: in every reachable state HEAD names a branch whose ref file exists.
C3_HeadNamesBranch ==
    \A k \in DOMAIN store : currentBranch(store[k]) \in DOMAIN store[k].heads

\* C4: the id stored in every commit object, whichever operation wrote it,
\* is the SHA-256 of the object's body (all lines but the id line).
C4_CommitIdIsBodyDigest ==
    \A k \in DOMAIN store : \A id \in DOMAIN store[k].objects :
        LET obj == store[k].objects[id] IN
        obj.fmt # "blob" =>
            /\ Known(sha, BodyOf(obj))
            /\ obj.id = sha256(sha, BodyOf(obj))

\* C5: after a successful merge_branch(other) the head of the current branch
\* is a new commit that, read back with get_commit, has the old head of the
\* current branch as parent and the files of other's head commit.
C5_MergeReadsBack ==
    [][\A other \in BranchNames :
         MergeBranch(other) =>
            LET before == store[K]
                after == store'[K]
                current == currentBranch(before)
                merged == getCommit(after, branchHead(after, current))
            IN /\ branchHead(after, current) # branchHead(before, current)
               /\ merged.id = branchHead(after, current)
               /\ merged.parent = branchHead(before, current)
               /\ merged.files =
                     getCommit(before, branchHead(before, other)).files
      ]_vars

(***************************************************************************)
(* Claims about the mirror and about linear histories                      *)
(***************************************************************************)
\* every non-empty head and tag of a directory names one of its objects
RefTargetsExist(r) ==
    /\ \A b \in DOMAIN r.heads :
          r.heads[b] # Empty => r.heads[b] \in DOMAIN r.objects
    /\ \A t \in DOMAIN r.tags :
          r.tags[t] # Empty => r.tags[t] \in DOMAIN r.objects

\* C2: in every reachable state, whatever sequence of add, commit, branch,
\* tag, merge, rebase, revert, rename, delete, push and pull led to it, every
\* non-empty branch head and tag names an object that exists in
\* .glite/objects (of the repository and of its mirror).
C2_RefTargetsExist ==
    /\ \A k \in DOMAIN store : RefTargetsExist(store[k])
    /\ \A k \in DOMAIN remotes : RefTargetsExist(remotes[k])

\* a pull has thrown a commit away: the repository is what the mirror holds,
\* a tag and both branches name objects, and a digest made after the push
\* names no object any more
C2_Witness ==
    /\ K \in DOMAIN remotes
    /\ store[K].objects = remotes[K].objects
    /\ store[K].heads = remotes[K].heads
    /\ \E t \in DOMAIN store[K].tags : store[K].tags[t] # Empty
    /\ \E b \in DOMAIN store[K].heads : store[K].heads[b] # Empty
    /\ \E i \in 1..Len(sha) : i \notin DOMAIN store[K].objects

\* C6: history(branch, n) has at most n records, starts at the head of the
\* branch and goes from each record to the commit its parent names; on main,
\* built by k successive commits, it has min(k, n) records, the commits
\* newest first, and the oldest commit has an empty parent.
C6_HistoryWalksParents ==
    LET r == store[K]
        k == Len(r.log)
    IN /\ \A b \in BranchNames, n \in 0..MaxLimit :
            LET h == history(r, b, n) IN
            /\ Len(h) <= n
            /\ Len(h) > 0 => h[1].id = branchHead(r, b)
            /\ \A i \in 1..(Len(h) - 1) :
                  /\ h[i].parent # Empty
                  /\ h[i + 1] = getCommit(r, h[i].parent)
       /\ \A n \in 0..MaxLimit :
            LET h == history(r, "main", n) IN
            /\ Len(h) = Min(k, n)
            /\ \A i \in 1..Len(h) : h[i].id = r.log[k - i + 1].id
            /\ Len(h) = k /\ k > 0 => h[k].parent = Empty

\* two commits were made, dev was branched off the first one, and history
\* is cut by the limit on main but not on dev
C6_Witness ==
    /\ Len(store[K].log) = 2
    /\ Len(history(store[K], "main", 1)) = 1
    /\ Len(history(store[K], "main", 3)) = 2
    /\ Len(history(store[K], "dev", 3)) = 1
    /\ history(store[K], "dev", 3)[1].id = store[K].log[1].id

(***************************************************************************)
(* Claims about permissions                                                *)
(***************************************************************************)
\* the role users.tsv holds for a user
RoleOf(username) ==
    LET i == CHOOSE i \in 1..Len(users) : users[i].username = username
    IN users[i].role

\* the collaborators permissions.tsv holds under a key
Collaborators(key) == IF key \in DOMAIN perms THEN perms[key] ELSE {}

\* somebody is logged in who is no admin, not the owner and no collaborator
\* of the repository at k
Outsider(k) ==
    /\ session # <<>>
    /\ RoleOf(session[1].username) # "admin"
    /\ session[1].username # k[1]
    /\ session[1].username \notin Collaborators(PermKey(k[1], k[2]))

\* a collaborator who is neither the owner nor an admin is logged in
MereCollaborator(k) ==
    /\ session # <<>>
    /\ RoleOf(session[1].username) # "admin"
    /\ session[1].username # k[1]
    /\ session[1].username \in Collaborators(PermKey(k[1], k[2]))

\* C7: while the logged-in user is no admin, not the owner and no
\* collaborator of ROOT/alice/proj, no command changes the index, refs,
\* HEAD, objects, log, tags or workspace of that repository.
C7_OutsiderChangesNothing ==
    [][Outsider(K) => store'[K] = store[K]]_vars

\* C8: hasWriteAccess(owner, repo) is true exactly when somebody is logged in
\* and that user has the role admin, or is the owner, or is in the
\* collaborator set stored under "<owner>/<repo>".
C8_WriteAccessExactly ==
    \A owner \in UserNames, repo \in RepoNames :
        hasWriteAccess(owner, repo) <=>
            /\ session # <<>>
            /\ \/ RoleOf(session[1].username) = "admin"
               \/ session[1].username = owner
               \/ session[1].username \in Collaborators(PermKey(owner, repo))

\* bob, a plain user, is logged in as the one collaborator of alice/proj:
\* he may write to alice/proj, to nothing of root and to no other repository
\* of alice
C8_Witness ==
    /\ session # <<>>
    /\ session[1].username = "bob"
    /\ RoleOf("bob") = "user"
    /\ Collaborators(PermKey("alice", "proj")) = {"bob"}
    /\ hasWriteAccess("alice", "proj")
    /\ ~hasWriteAccess("root", "proj")
    /\ ~hasWriteAccess("alice", "other")

\* out holds content or an error about the directory k
ReadOf(k) == out # <<>> /\ out[1].root = k

\* the read commands that print whenever they are allowed to
Unconditional == {"view", "status", "log", "branch", "tags", "diff"}

\* C9: while somebody who is no admin, not the owner and no collaborator is
\* logged in, every read command on ROOT/alice/proj (view, status, log,
\* branch list, tags, diff, show, fork, clone) is refused if the repository
\* is private, and prints its content if the repository is public.
C9_PrivateUnreadable ==
    [][(Outsider(K) /\ ReadOf(K)') =>
          IF isPublic(K[1], K[2])
          THEN out'[1].cmd \in Unconditional => out'[1].ok
          ELSE ~out'[1].ok]_vars

\* C10: while a collaborator who is neither the owner nor an admin is logged
\* in, no command (visibility, set-public, set-private, the menu toggle)
\* changes the visibility of the repository.
C10_CollaboratorKeepsVisibility ==
    [][MereCollaborator(K) =>
          store'[K].config.visibility = store[K].config.visibility]_vars

(***************************************************************************)
(* Claims about the registry of repositories and users                     *)
(***************************************************************************)
\* the owner and the repository a key of permissions.tsv was built from
KeyOf(owner, repo, key) == key = PermKey(owner, repo)

\* C11: whatever sequence of create, delete, transfer, fork, perm add and
\* perm rm was typed, every key "<o>/<r>" of the permission map names a
\* repository that exists, and o is not in the set stored under that key.
C11_PermissionOwnership ==
    \A key \in DOMAIN perms :
        \E owner \in UserNames, repo \in RepoNames \cup {"proj-fork"} :
            /\ KeyOf(owner, repo, key)
            /\ repoExists(owner, repo)
            /\ owner \notin perms[key]

\* C12: once a user is registered, whatever sequence of signup, login,
\* logout, make-admin and remove-admin follows, at least one user has the
\* role admin.
C12_SomeAdminRemains ==
    users # <<>> => \E i \in 1..Len(users) : users[i].role = "admin"

\* the first user, admin by signup, was demoted by an admin made later
C12_Witness ==
    /\ Len(users) >= 2
    /\ users[1].role = "user"
    /\ \E i \in 2..Len(users) : users[i].role = "admin"

\* C13: a role in the registry changes only in a step of a logged-in admin
\* and only for a registered user; a change to the role user never hits the
\* actor itself.  In every other case make-admin and remove-admin leave the
\* registry as it is.
C13_RolesChangeByAdminOnly ==
    [][(Len(users') = Len(users) /\ users' # users) =>
          /\ session # <<>>
          /\ session[1].role = "admin"
          /\ RoleOf(session[1].username) = "admin"
          /\ \A i \in 1..Len(users) :
                /\ users'[i].username = users[i].username
                /\ (users'[i].role # users[i].role /\ users'[i].role = "user")
                      => users[i].username # session[1].username]_vars

\* an admin is logged in who was made admin by the first user, and the
\* third user is still a plain user
C13_Witness ==
    /\ Len(users) = 3
    /\ users[1].role = "admin"
    /\ users[2].role = "admin"
    /\ users[3].role = "user"
    /\ session # <<>>
    /\ session[1].username = users[2].username
    /\ session[1].role = "admin"

\* C14: a signup on an empty registry appends a user with the role admin,
\* every later signup appends a user with the role user; the entries already
\* there stay as they are.
C14_FirstUserIsAdmin ==
    [][Len(users') = Len(users) + 1 =>
          /\ SubSeq(users', 1, Len(users)) = users
          /\ users'[Len(users')].role =
                IF users = <<>> THEN "admin" ELSE "user"]_vars

\* the second signup has just succeeded: the first user is admin, the
\* second a plain user
C14_Witness ==
    /\ Len(users) = 2
    /\ users[1].role = "admin"
    /\ users[2].role = "user"
    /\ out # <<>>
    /\ out[1].cmd = "signup"
    /\ out[1].ok

\* C15: no two entries of the registry have the same user name, whatever
\* signups (also of names that are taken, or taken once trimmed) and role
\* changes were made.
C15_UsernamesUnique ==
    \A i, j \in 1..Len(users) :
        users[i].username = users[j].username => i = j

\* all three names are registered and a signup with a taken name has just
\* been refused
C15_Witness ==
    /\ Len(users) = 3
    /\ out # <<>>
    /\ out[1].cmd = "signup"
    /\ ~out[1].ok
    /\ out[1].shown = "Username already exists."

(***************************************************************************)
(* Claims about calls of the repository service                            *)
(***************************************************************************)
\* the step is a call of the function cmd
Calls(cmd) == out' # <<>> /\ out'[1].cmd = cmd

\* the call changed nothing on disk
NothingWritten ==
    /\ store'[K].objects = store[K].objects
    /\ store'[K].heads = store[K].heads
    /\ store'[K].log = store[K].log
    /\ store'[K].HEAD = store[K].HEAD
    /\ store'[K].index = store[K].index

\* C16: commit on an empty index returns false and changes nothing: no
\* object is written, no branch head moves, the log gets no line.
C16_EmptyCommitFails ==
    [][(Calls("commit") /\ readIndex(store[K]) = <<>>) =>
          /\ ~out'[1].ok
          /\ NothingWritten
          /\ sha' = sha]_vars

\* a commit was refused right after the index had been committed
C16_Witness ==
    /\ out # <<>>
    /\ out[1].cmd = "commit"
    /\ ~out[1].ok
    /\ readIndex(store[K]) = <<>>
    /\ Len(store[K].log) >= 1

\* C17: mergeBranch(other) and rebaseBranch(other) return false when other
\* is the current branch or has no head commit, and then no object is
\* written, no branch head changes and the log stays as it is.
C17_MergeRebaseRefuse ==
    [][((Calls("mergeBranch") \/ Calls("rebaseBranch"))
           /\ \/ out'[1].shown[1] = currentBranch(store[K])
              \/ branchHead(store[K], out'[1].shown[1]) = Empty) =>
          /\ ~out'[1].ok
          /\ NothingWritten
          /\ sha' = sha]_vars

\* main has a commit, dev was created before it and has none: a rebase of
\* main onto dev has just been refused
C17_Witness ==
    /\ out # <<>>
    /\ out[1].cmd = "rebaseBranch"
    /\ out[1].shown = <<"dev">>
    /\ ~out[1].ok
    /\ currentBranch(store[K]) = "main"
    /\ "dev" \in DOMAIN store[K].heads
    /\ branchHead(store[K], "dev") = Empty
    /\ branchHead(store[K], "main") # Empty

\* C18: a rebaseBranch(other) that returns true leaves the head of the
\* current branch equal to the head of other, and the objects and the log as
\* they were.
C18_RebaseMovesHead ==
    [][(Calls("rebaseBranch") /\ out'[1].ok) =>
          /\ branchHead(store'[K], currentBranch(store[K])) =
                branchHead(store[K], out'[1].shown[1])
          /\ store'[K].objects = store[K].objects
          /\ store'[K].log = store[K].log]_vars

\* the object id is a commit, whichever function wrote it
IsCommitObject(r, id) ==
    id \in DOMAIN r.objects /\ r.objects[id].fmt \in {"eq", "colon"}

\* the parent written into a commit object
WrittenParent(r, id) ==
    IF r.objects[id].parent = NullTok THEN Empty ELSE r.objects[id].parent

\* the files written into the parent of a commit object
FilesOfParent(r, id) ==
    IF WrittenParent(r, id) = Empty THEN <<>>
    ELSE IF WrittenParent(r, id) \notin DOMAIN r.objects THEN <<>>
    ELSE r.objects[WrittenParent(r, id)].files

\* C19: revertCommit(cid, author) returns false and changes nothing when no
\* object cid exists.  For every commit cid (written by commit, mergeBranch
\* or revertCommit) it makes the head of the current branch a new commit
\* whose parent is the previous head, whose message is "Revert: " and the
\* message of cid, and whose files are those of the parent of cid (none for
\* a root commit).  Stated for a HEAD that names a branch with a ref file.
C19_RevertBuildsCommit ==
    [][(Calls("revertCommit")
           /\ currentBranch(store[K]) \in DOMAIN store[K].heads) =>
          LET cid == out'[1].shown[1]
              r == store[K]
              n == store'[K]
              head == branchHead(n, currentBranch(r))
          IN IF cid \notin DOMAIN r.objects
             THEN ~out'[1].ok /\ NothingWritten /\ sha' = sha
             ELSE IsCommitObject(r, cid) =>
                     /\ out'[1].ok
                     /\ IsCommitObject(n, head)
                     /\ head = LastLogged(n)
                     /\ WrittenParent(n, head) = branchHead(r, currentBranch(r))
                     /\ n.objects[head].message =
                           <<"Revert:">> \o r.objects[cid].message
                     /\ n.objects[head].files = FilesOfParent(r, cid)]_vars

\* C20: renameBranch(old, new) returns false and changes nothing if old has
\* no ref file or new has one.  When it returns true, new holds the head old
\* had, old is gone, HEAD names new exactly if it named old before, and
\* every other branch is as it was.
C20_RenameKeepsOthers ==
    [][Calls("renameBranch") =>
          LET oldName == out'[1].shown[1]
              newName == out'[1].shown[2]
              r == store[K]
              n == store'[K]
          IN IF oldName \notin DOMAIN r.heads \/ newName \in DOMAIN r.heads
             THEN ~out'[1].ok /\ NothingWritten
             ELSE out'[1].ok =>
                     /\ DOMAIN n.heads =
                           (DOMAIN r.heads \ {oldName}) \cup {newName}
                     /\ n.heads[newName] = r.heads[oldName]
                     /\ \A b \in DOMAIN r.heads \ {oldName} :
                           n.heads[b] = r.heads[b]
                     /\ currentBranch(n) = newName <=>
                           currentBranch(r) = oldName]_vars

(***************************************************************************)
(* Claims about branches and tags                                          *)
(***************************************************************************)
\* C21: deleteBranch(name) returns false and changes nothing when name is the
\* branch HEAD names or has no ref file; otherwise it removes the ref of
\* that branch and leaves HEAD and every other branch as they were.
C21_DeleteRemovesOneRef ==
    [][Calls("deleteBranch") =>
          LET name == out'[1].shown[1]
              r == store[K]
              n == store'[K]
          IN IF name = currentBranch(r) \/ name \notin DOMAIN r.heads
             THEN ~out'[1].ok /\ NothingWritten
             ELSE /\ out'[1].ok
                  /\ DOMAIN n.heads = DOMAIN r.heads \ {name}
                  /\ \A b \in DOMAIN n.heads : n.heads[b] = r.heads[b]
                  /\ n.HEAD = r.HEAD
                  /\ n.objects = r.objects]_vars

\* dev, which held a commit, has just been deleted while HEAD names main
C21_Witness ==
    /\ out # <<>>
    /\ out[1].cmd = "deleteBranch"
    /\ out[1].shown = <<"dev">>
    /\ out[1].ok
    /\ DOMAIN store[K].heads = {"main"}
    /\ currentBranch(store[K]) = "main"
    /\ branchHead(store[K], "main") # Empty

\* C22: createBranch(name), for a name that passed isValidIdentifier,
\* returns false and changes nothing if name has a ref file; otherwise the
\* new branch has the head of the current branch (empty when that branch has
\* no commit), and HEAD and the heads of the other branches stay.
C22_CreateCopiesHead ==
    [][Calls("createBranch") =>
          LET name == out'[1].shown[1]
              r == store[K]
              n == store'[K]
          IN IF name \in DOMAIN r.heads
             THEN ~out'[1].ok /\ NothingWritten
             ELSE /\ out'[1].ok
                  /\ DOMAIN n.heads = DOMAIN r.heads \cup {name}
                  /\ n.heads[name] = branchHead(r, currentBranch(r))
                  /\ \A b \in DOMAIN r.heads : n.heads[b] = r.heads[b]
                  /\ n.HEAD = r.HEAD
                  /\ n.objects = r.objects]_vars

\* dev has just been created at the commit main holds
C22_Witness ==
    /\ out # <<>>
    /\ out[1].cmd = "createBranch"
    /\ out[1].shown = <<"dev">>
    /\ out[1].ok
    /\ currentBranch(store[K]) = "main"
    /\ branchHead(store[K], "main") # Empty
    /\ branchHead(store[K], "dev") = branchHead(store[K], "main")

\* C23: createTag(name) returns false and creates no tag if the tag exists
\* or the head of the current branch is empty; otherwise the new tag holds
\* the head of the current branch.
C23_TagHoldsHead ==
    [][Calls("createTag") =>
          LET name == out'[1].shown[1]
              r == store[K]
              n == store'[K]
          IN IF name \in DOMAIN r.tags
                \/ branchHead(r, currentBranch(r)) = Empty
             THEN ~out'[1].ok /\ n.tags = r.tags
             ELSE /\ out'[1].ok
                  /\ name \in DOMAIN n.tags
                  /\ n.tags[name] = branchHead(r, currentBranch(r))]_vars

(***************************************************************************)
(* Claims about the index                                                  *)
(***************************************************************************)
\* the index holds no path twice
OnePerPath(entries) ==
    \A i, j \in 1..Len(entries) : entries[i][1] = entries[j][1] => i = j

\* C24: after any sequence of addFile, removeFile, resetFile and commit the
\* index holds at most one entry per path; addFile of a staged path puts the
\* new blob id into the entry where it stands and leaves the other entries
\* and their order alone; addFile of a new path appends its entry.
C24_IndexOneEntryPerPath ==
    [][/\ OnePerPath(readIndex(store'[K]))
       /\ Calls("addFile") /\ out'[1].ok =>
             LET path == out'[1].shown[1]
                 r == store[K]
                 before == readIndex(r)
                 after == readIndex(store'[K])
                 blobId == sha256(sha, BlobText(r.workspace[path]))
             IN IF Staged(r, path)
                THEN /\ Len(after) = Len(before)
                     /\ \A i \in 1..Len(before) :
                           after[i] = IF before[i][1] = path
                                      THEN <<path, blobId>> ELSE before[i]
                ELSE after = Append(before, <<path, blobId>>)]_vars

\* f, staged before g, has just been staged again with other bytes: its
\* entry is still the first and carries another blob than g's
C24_Witness ==
    /\ out # <<>>
    /\ out[1].cmd = "addFile"
    /\ out[1].shown = <<"f">>
    /\ out[1].ok
    /\ store[K].log = <<>>
    /\ Len(readIndex(store[K])) = 2
    /\ readIndex(store[K])[1][1] = "f"
    /\ readIndex(store[K])[2][1] = "g"
    /\ readIndex(store[K])[1][2] # readIndex(store[K])[2][2]
    /\ Cardinality(DOMAIN store[K].objects) = 2

\* the blobs of the object store that hold these bytes
BlobsOf(objects, bytes) ==
    {id \in DOMAIN objects :
        objects[id].fmt = "blob" /\ objects[id].bytes = bytes}

\* C25: staging stores one blob per content: two paths with the same bytes
\* give one blob and two index entries with its id; staging bytes whose
\* blob is in the store adds no object.
C25_OneBlobPerContent ==
    [][Calls("addFile") /\ out'[1].ok =>
          LET path == out'[1].shown[1]
              r == store[K]
              n == store'[K]
              bytes == r.workspace[path]
          IN /\ Cardinality(BlobsOf(n.objects, bytes)) = 1
             /\ readIndex(n)[CHOOSE i \in 1..Len(readIndex(n)) :
                              readIndex(n)[i][1] = path][2]
                   \in BlobsOf(n.objects, bytes)
             /\ IF BlobsOf(r.objects, bytes) # {}
                THEN n.objects = r.objects
                ELSE Cardinality(DOMAIN n.objects \ DOMAIN r.objects) = 1]_vars

\* f and g hold the same bytes and both are staged: one object, two entries
\* with its id
C25_Witness ==
    /\ out # <<>>
    /\ out[1].cmd = "addFile"
    /\ out[1].ok
    /\ DOMAIN store[K].workspace = {"f", "g"}
    /\ store[K].workspace["f"] = store[K].workspace["g"]
    /\ Len(readIndex(store[K])) = 2
    /\ readIndex(store[K])[1][2] = readIndex(store[K])[2][2]
    /\ DOMAIN store[K].objects = {readIndex(store[K])[1][2]}

\* C26: removeFile and resetFile of a path without index entry return false
\* and leave the index and the workspace as they were.
C26_UnstagedPathRefused ==
    [][(Calls("removeFile") \/ Calls("resetFile"))
       /\ ~Staged(store[K], out'[1].shown[1]) =>
          /\ ~out'[1].ok
          /\ readIndex(store'[K]) = readIndex(store[K])
          /\ store'[K].workspace = store[K].workspace]_vars

\* removeFile of f, which is in the workspace and not staged while g is,
\* has just been refused
C26_Witness ==
    /\ out # <<>>
    /\ out[1].cmd = "removeFile"
    /\ out[1].shown = <<"f">>
    /\ ~out[1].ok
    /\ "f" \in DOMAIN store[K].workspace
    /\ Staged(store[K], "g")

\* C27: no entry point of addFile stages a path that leaves workspace/: the
\* index of no repository lists a path with a ".." component, and no blob
\* is made of a file outside workspace/.
C27_NoPathOutsideWorkspace ==
    \A k \in DOMAIN store : \A i \in 1..Len(readIndex(store[k])) :
        ~Escapes(readIndex(store[k])[i][1])

(***************************************************************************)
(* Claims about transfer, fork and mirrors                                 *)
(***************************************************************************)
\* the user who typed the command may transfer the repository of owner
MayTransfer(owner, repo, newOwner) ==
    /\ repoExists(owner, repo)
    /\ session[1].username = owner \/ session[1].role = "admin"
    /\ userExists(newOwner)
    /\ ~repoExists(newOwner, repo)

\* the repository of owner went to newOwner with its collaborators
Transferred(owner, repo, newOwner) ==
    /\ store' = Renamed(store, repoPath(owner, repo), repoPath(newOwner, repo))
    /\ repoPath(owner, repo) \notin DOMAIN store'
    /\ repoPath(newOwner, repo) \in DOMAIN store'
    /\ PermKey(owner, repo) \notin DOMAIN perms'
    /\ IF Collaborators(PermKey(owner, repo)) = {}
       THEN PermKey(newOwner, repo) \in DOMAIN perms' =>
               perms'[PermKey(newOwner, repo)] = {}
       ELSE /\ PermKey(newOwner, repo) \in DOMAIN perms'
            /\ perms'[PermKey(newOwner, repo)] =
                  Collaborators(PermKey(owner, repo))

\* C28: a transfer of a repository to newOwner goes through exactly when
\* the user who typed it is the owner or an administrator, newOwner is
\* registered and newOwner has no repository of that name; the repository
\* is then under newOwner and no longer under the old owner, with its
\* collaborators under the new key; otherwise nothing changes.
C28_TransferByOwnerOrAdmin ==
    [][Calls("transfer") =>
          LET repo == out'[1].shown[1]
              newOwner == out'[1].shown[2]
          IN IF \E owner \in UserNames : MayTransfer(owner, repo, newOwner)
             THEN /\ out'[1].ok
                  /\ \E owner \in UserNames :
                        /\ MayTransfer(owner, repo, newOwner)
                        /\ Transferred(owner, repo, newOwner)
             ELSE ~out'[1].ok /\ UNCHANGED <<store, perms>>]_vars

\* the user who typed the command may read the repository at k
Readable(k) == isPublic(k[1], k[2]) \/ hasWriteAccess(k[1], k[2])

\* "<repo>-fork" or "<repo>-fork<n>"
IsForkName(name, repo) ==
    \/ name = repo \o "-fork"
    \/ \E n \in 1..ForkLimit : name = repo \o "-fork" \o ToString(n)

\* C29: a fork typed by a user who may read the source makes a repository
\* under that user's name, called <repo>-fork or <repo>-fork<n> and not in
\* use before, with the objects, refs and workspace of the source; the
\* source and every repository that existed stay as they were.  When the
\* source is private and the user is neither owner, collaborator nor
\* administrator the fork is refused and nothing is created.
C29_ForkCopiesSource ==
    [][Calls("fork") =>
          LET source == out'[1].root
              dest == out'[1].shown
          IN IF Readable(source)
             THEN /\ out'[1].ok
                  /\ dest[1] = session[1].username
                  /\ IsForkName(dest[2], source[2])
                  /\ dest \notin DOMAIN store
                  /\ DOMAIN store' = DOMAIN store \cup {dest}
                  /\ \A k \in DOMAIN store : store'[k] = store[k]
                  /\ store'[dest].objects = store[source].objects
                  /\ store'[dest].heads = store[source].heads
                  /\ store'[dest].tags = store[source].tags
                  /\ store'[dest].HEAD = store[source].HEAD
                  /\ store'[dest].workspace = store[source].workspace
             ELSE ~out'[1].ok /\ store' = store]_vars

\* bob, who had bob/proj-fork, has just forked alice/proj again: the copy
\* is bob/proj-fork1 and holds the commit and the tag of the source
C29_Witness ==
    /\ out # <<>>
    /\ out[1].cmd = "fork"
    /\ out[1].ok
    /\ out[1].root = K
    /\ out[1].shown = <<"bob", "proj-fork1">>
    /\ <<"bob", "proj-fork">> \in DOMAIN store
    /\ store[<<"bob", "proj-fork1">>].objects = store[K].objects
    /\ DOMAIN store[<<"bob", "proj-fork1">>].tags = {"v1"}
    /\ store[K].log # <<>>

\* two directories hold the same objects, refs, HEAD, index, log and
\* workspace
SameRepository(a, b) ==
    /\ a.objects = b.objects
    /\ a.heads = b.heads
    /\ a.tags = b.tags
    /\ a.HEAD = b.HEAD
    /\ a.index = b.index
    /\ a.log = b.log
    /\ a.workspace = b.workspace

\* C30: after push(L, R) and then pull(L2, R) into a fresh L2, L2 has the
\* objects, branch and tag refs, HEAD, index, log and workspace L had at
\* the push: a pull from what the push wrote gives L back, and a pull into
\* a new repository gives what the mirror holds.
C30_PushPullRoundTrip ==
    [][/\ Calls("push") =>
             /\ SameRepository(remotes'[K], store[K])
             /\ \A fresh \in {NewRepo(Copy[1], Copy[2]), EmptyDir} :
                   SameRepository(pull(fresh, remotes'[K]), store[K])
       /\ Calls("pull") /\ out'[1].ok
             /\ store[Copy] = NewRepo(Copy[1], Copy[2]) =>
             SameRepository(store'[Copy], remotes[K])]_vars

\* bob/copy has just pulled what alice/proj pushed, a commit, a tag and a
\* staged file, and alice/proj has moved on since
C30_Witness ==
    /\ out # <<>>
    /\ out[1].cmd = "pull"
    /\ out[1].ok
    /\ SameRepository(store[Copy], remotes[K])
    /\ store[Copy].log # <<>>
    /\ store[Copy].index # <<>>
    /\ DOMAIN store[Copy].tags = {"v1"}
    /\ store[Copy].workspace # [p \in {} |-> ""]
    /\ store[K].log # store[Copy].log

(***************************************************************************)
(* Claims about pull, snapshots and the order of writes                    *)
(***************************************************************************)
\* C31: pull returns false and leaves the local repository as it was when
\* the mirror does not exist; otherwise .glite and workspace become those
\* of the mirror: what was committed, branched, tagged, staged or saved
\* locally and is not in the mirror is gone.
C31_PullReplacesLocal ==
    [][Calls("pull") /\ out'[1].root = K =>
          IF K \notin DOMAIN remotes
          THEN ~out'[1].ok /\ store' = store
          ELSE /\ out'[1].ok
               /\ SameRepository(store'[K], remotes[K])
               /\ store'[K].config = remotes[K].config
               /\ DOMAIN store' = DOMAIN store]_vars

\* alice/proj has just been pulled back: a commit digested after the push
\* is not among its objects, and the tag and the branch made after the
\* push are gone
C31_Witness ==
    /\ out # <<>>
    /\ out[1].cmd = "pull"
    /\ out[1].root = K
    /\ out[1].ok
    /\ store[K].log # <<>>
    /\ \E id \in 1..Len(sha) :
          sha[id][1] = "body" /\ id \notin DOMAIN store[K].objects
    /\ store[K].tags = [t \in {} |-> Empty]
    /\ DOMAIN store[K].heads = {"main"}

\* the paths a files list names
PathsOf(files) == {files[i][1] : i \in 1..Len(files)}

\* C32: the files of a commit are the whole tree at that commit: a path the
\* previous commit of the branch lists, and that was not removed, is listed
\* by the next commit of the branch too, also when other paths only were
\* staged for it.  Checked where no path is ever removed.
C32_CommitListsWholeTree ==
    [][Calls("commit") /\ out'[1].ok =>
          LET branch == currentBranch(store[K])
              newHead == branchHead(store'[K], branch)
          IN PathsOf(FilesOfParent(store'[K], newHead))
                \subseteq PathsOf(store'[K].objects[newHead].files)]_vars

\* C33: commit, mergeBranch and revertCommit write the commit object, then
\* the branch ref, then the log line: in every state an interruption can
\* leave, every branch ref names an object that holds a commit, and a line
\* is added to the log only for a commit the branch ref has reached.
C33_ObjectThenRefThenLog ==
    [][/\ \A b \in DOMAIN store'[K].heads :
             store'[K].heads[b] # Empty =>
                IsCommitObject(store'[K], store'[K].heads[b])
       /\ Len(store'[K].log) > Len(store[K].log) =>
             LET line == store'[K].log[Len(store'[K].log)]
             IN branchHead(store[K], line.branch) = line.id]_vars

(***************************************************************************)
(* Claims about history, the log, tags and refs                            *)
(***************************************************************************)
\* C34: after a mergeBranch or revertCommit on a branch whose head was h,
\* history of the branch gives the new commit first and then h and the
\* ancestors of h, up to the limit: the chain is not cut at the new commit.
C34_HistoryPassesMergeAndRevert ==
    [][(Calls("mergeBranch") \/ Calls("revertCommit")) /\ out'[1].ok =>
          LET branch == currentBranch(store[K])
              h == branchHead(store[K], branch)
              newHead == branchHead(store'[K], branch)
          IN \A limit \in 1..MaxLimit :
                LET records == history(store'[K], branch, limit) IN
                /\ Len(records) >= 1
                /\ records[1].id = newHead
                /\ SubSeq(records, 2, Len(records)) =
                      Walk(store[K], h, limit - 1)]_vars

\* the call returned true and is one of the three that write a commit
WroteCommit ==
    /\ Calls("commit") \/ Calls("mergeBranch") \/ Calls("revertCommit")
    /\ out'[1].ok

\* the log got one line more, for the commit that is now the head of the
\* current branch, and kept the lines it had
OneLineAppended ==
    /\ Len(store'[K].log) = Len(store[K].log) + 1
    /\ SubSeq(store'[K].log, 1, Len(store[K].log)) = store[K].log
    /\ store'[K].log[Len(store'[K].log)].id =
          branchHead(store'[K], currentBranch(store[K]))

TypedBranches == CallNames \cup {"../tags/v1"}

NextTags ==
    \/ \E path \in OnePath, bytes \in OneContent : SaveFile(path, bytes)
    \/ \E path \in OnePath : CallAddFile(path)
    \/ \E author \in Authors, message \in Messages : CallCommit(author, message)
    \/ \E name \in CallNames : CallCreateBranch(name)
    \/ \E name \in TypedBranches : CallSetCurrentBranch(name)
    \/ \E name \in CallNames : CallDeleteBranch(name)
    \/ \E oldName \in CallNames, newName \in CallNames :
          CallRenameBranch(oldName, newName)
    \/ \E name \in CallNames : CallMergeBranch(name)
    \/ \E name \in CallNames : CallRebaseBranch(name)
    \/ \E id \in Ids, author \in Authors : CallRevertCommit(id, author)
    \/ \E name \in TagNames : CallCreateTag(name)

SpecTags == InitTerminal /\ [][NextTags]_vars

\* C36: a tag that exists keeps its value over every step of commit, merge,
\* rebase, revert, branch create, rename, delete and checkout.
C36_TagsNeverChange ==
    [][\A t \in DOMAIN store[K].tags :
          /\ t \in DOMAIN store'[K].tags
          /\ store'[K].tags[t] = store[K].tags[t]]_vars

(***************************************************************************)
(* Frame of the commands that write refs                                   *)
(***************************************************************************)
\* C37: setCurrentBranch(name) rewrites HEAD and nothing else: the index,
\* the branch heads, the tags, the objects, the log and the workspace files
\* are the same before and after the call.
C37_CheckoutWritesHeadOnly ==
    [][Calls("setCurrentBranch") =>
          /\ store'[K].HEAD = [prefix |-> "ref:", name |-> out'[1].shown[1]]
          /\ store'[K].index = store[K].index
          /\ store'[K].heads = store[K].heads
          /\ store'[K].tags = store[K].tags
          /\ store'[K].objects = store[K].objects
          /\ store'[K].log = store[K].log
          /\ store'[K].workspace = store[K].workspace]_vars

\* a checkout of dev was made with an entry staged on main
C37_Witness ==
    /\ out # <<>>
    /\ out[1].cmd = "setCurrentBranch"
    /\ store[K].HEAD.name = "dev"
    /\ store[K].index # <<>>

\* the commands that move the head of the current branch
MovesHead ==
    \/ Calls("commit")
    \/ Calls("mergeBranch")
    \/ Calls("rebaseBranch")
    \/ Calls("revertCommit")

\* C38: commit, mergeBranch, rebaseBranch and revertCommit leave HEAD, the
\* head of every branch but the current one and every tag as they were.
C38_OnlyCurrentHeadMoves ==
    [][MovesHead =>
          /\ store'[K].HEAD = store[K].HEAD
          /\ DOMAIN store'[K].heads \subseteq
                DOMAIN store[K].heads \cup {currentBranch(store[K])}
          /\ \A b \in DOMAIN store[K].heads \ {currentBranch(store[K])} :
                /\ b \in DOMAIN store'[K].heads
                /\ store'[K].heads[b] = store[K].heads[b]
          /\ store'[K].tags = store[K].tags]_vars

(***************************************************************************)
(* The parent relation                                                     *)
(***************************************************************************)
\* the commit objects of a repository
CommitIds(r) == {id \in DOMAIN r.objects : r.objects[id].fmt # "blob"}

\* a limit larger than the number of commits
BeyondAll(r) == Cardinality(DOMAIN r.objects) + 1

\* C39: the parent written in a commit object was digested strictly before
\* the commit, and the parent readCommit returns likewise, so the walk of
\* history from every branch head ends by itself before a limit larger than
\* the number of commits is reached.
C39_ParentsAcyclic ==
    LET r == store[K] IN
    /\ \A id \in CommitIds(r) :
          /\ r.objects[id].parent = NullTok \/ r.objects[id].parent < id
          /\ readCommit(r, id).parent < id
    /\ \A b \in DOMAIN r.heads :
          Len(history(r, b, BeyondAll(r))) < BeyondAll(r)

\* a branch whose history is a commit and its parent, with a limit beyond
\* both
C39_Witness ==
    LET r == store[K] IN
    \E b \in DOMAIN r.heads :
       /\ Len(history(r, b, BeyondAll(r))) = 2
       /\ history(r, b, BeyondAll(r))[1].parent = history(r, b, BeyondAll(r))[2].id

(***************************************************************************)
(* The identity a repository carries in its config                         *)
(***************************************************************************)
\* C40: every repository stored at ROOT/<o>/<r> has owner = o and name = r
\* in its config, after every create, fork and transfer.
C40_ConfigNamesItsDirectory ==
    \A k \in DOMAIN store :
       /\ store[k].config.owner = k[1]
       /\ store[k].config.name = k[2]

====
